---- MODULE Spec2Model ----
(***************************************************************************)
(* Verification model of ZephrFish/LCA: the coordinator's dependency-gated *)
(* executor (src/agents/coordinator.rs), its task decomposer, and the MCP  *)
(* tool-process manager (src/mcp/client.rs, src/mcp/server.rs).            *)
(***************************************************************************)
EXTENDS Integers, Sequences, FiniteSets, TLC

(***************************************************************************)
(* Bounds of the executor model.                                           *)
(***************************************************************************)
MaxSubtasks == 3
MaxDeps == 2
MaxDepIdx == 2

VARIABLES
    pc,          \* position of CoordinatorAgent::execute
    subtasks,    \* Vec<SubTask> returned by decompose_task
    results,     \* Vec<AgentResult> of execute
    all_success, \* the all_success flag of execute
    idx,         \* loop index of `for (idx, subtask) in subtasks.iter().enumerate()`
    outcome,     \* the value execute returned (kind "none" while running)
    calls,       \* history: subtask indices whose handler was invoked, in order
    active,      \* history: subtask indices whose handler call has not returned yet
    task,        \* the task text handed to decompose_task / infer_agent_type
    response,    \* the completion text returned by llm.chat_with_history
    dpc,         \* position of decompose_task
    dresult,     \* what decompose_task returned (or that it panicked)
    inferred,    \* what infer_agent_type returned
    servers,     \* McpClient.servers: provider name -> McpServer instance (0: no entry)
    instances,   \* every McpServer value constructed so far
    writer,      \* the task holding the write guard of McpClient.servers (0: none)
    th,          \* per task: the McpClient operation it runs and its position
    llm_calls,   \* history: calls of llm.chat_with_history made under execute
    mode,        \* PermissionManager.mode, shared by every clone of the gate
    pm,          \* ToolExecutor.permission_manager is Some
    cl,          \* per caller: the ToolExecutor primitive it runs and its position
    ma,          \* one run of McpAgent::execute
    reg          \* AgentRegistry.agents and the last find_capable

execVars == <<pc, subtasks, results, all_success, idx, outcome, calls, active, llm_calls>>

decompVars == <<task, response, dpc, dresult, inferred>>

mcpVars == <<servers, instances, writer, th>>

gateVars == <<mode, pm, cl>>

agentVars == <<ma>>

regVars == <<reg>>

vars == <<execVars, decompVars, mcpVars, gateVars, agentVars, regVars>>

outsideExec == <<decompVars, mcpVars, gateVars, agentVars, regVars>>

outsideDecomp == <<execVars, mcpVars, gateVars, agentVars, regVars>>

outsideMcp == <<execVars, decompVars, gateVars, agentVars, regVars>>

outsideGate == <<execVars, decompVars, mcpVars, agentVars, regVars>>

outsideAgent == <<execVars, decompVars, mcpVars, gateVars, regVars>>

outsideReg == <<execVars, decompVars, mcpVars, gateVars, agentVars>>

(***************************************************************************)
(* AgentResult (src/agents/base.rs).                                       *)
(***************************************************************************)
EmptyMetadata == {}

AgentResultSuccess(output) ==
    [success |-> TRUE, output |-> output, metadata |-> EmptyMetadata]

AgentResultFailure(output) ==
    [success |-> FALSE, output |-> output, metadata |-> EmptyMetadata]

with_metadata(r, key, value) ==
    [r EXCEPT !.metadata = {kv \in r.metadata : kv[1] # key} \cup {<<key, value>>}]

(***************************************************************************)
(* The registry built by AgentSystem::new: code, shell, file, analysis.    *)
(***************************************************************************)
RegisteredAgents == {"code", "shell", "file", "analysis"}

\* variant: an unknown name falls back to the analysis handler
RegistryGet_Default(name) == IF name \in RegisteredAgents THEN name ELSE "analysis"

\* base.rs 133-135 over the registry of system.rs 34-37
RegistryGet(name) == IF name \in RegisteredAgents THEN name ELSE "None"

(***************************************************************************)
(* What a handler's execute() can hand back to the coordinator: Ok with a  *)
(* success or a failure AgentResult, or Err with the error of the first    *)
(* `?` that failed; llm is the number of chat_with_history calls the run   *)
(* made.                                                                   *)
(***************************************************************************)
\* the error of llm.chat_with_history
CompletionError == <<"completion service error">>

\* executor.rs 60: anyhow::bail!("File write permission denied by user")
WriteDenied == <<"File write permission denied by user">>

\* executor.rs 128: anyhow::bail!("Shell execution permission denied by user")
ShellDenied == <<"Shell execution permission denied by user">>

\* an error of the file system or of spawning a command
IoError == <<"io error">>

HandlerOk(result) == [kind |-> "ok", value |-> result, llm |-> 1]

HandlerErr(error, n) == [kind |-> "err", value |-> error, llm |-> n]

HandlerOutcomes(agent) ==
    CASE agent = "code" ->
            { HandlerOk(AgentResultSuccess(<<"response">>)),
              HandlerOk(with_metadata(AgentResultSuccess(<<"response">>),
                                      "file_written", "path")),
              HandlerErr(CompletionError, 1), HandlerErr(WriteDenied, 1),
              HandlerErr(IoError, 1) }
      [] agent = "analysis" ->
            { HandlerOk(AgentResultSuccess(<<"response">>)),
              HandlerErr(IoError, 0), HandlerErr(CompletionError, 1) }
      [] agent = "file" ->
            { HandlerOk(with_metadata(AgentResultSuccess(<<"content">>), "path", "path")),
              HandlerOk(AgentResultFailure(<<"Unknown operation: ">>)),
              HandlerErr(CompletionError, 1), HandlerErr(WriteDenied, 1),
              HandlerErr(IoError, 1) }
      [] agent = "shell" ->
            { HandlerOk(with_metadata(AgentResultSuccess(<<"output">>), "command", "cmd")),
              HandlerOk(AgentResultFailure(<<"Refused to execute dangerous command: ">>)),
              HandlerErr(CompletionError, 1), HandlerErr(ShellDenied, 1),
              HandlerErr(IoError, 1) }

(***************************************************************************)
(* Plans the decomposer can hand to the executor.                          *)
(***************************************************************************)
AgentTypes == {"file", "mcp"}

RECURSIVE SeqsUpTo(_, _)
SeqsUpTo(S, n) ==
    IF n = 0 THEN {<<>>}
    ELSE LET shorter == SeqsUpTo(S, n - 1)
         IN  shorter \cup {Append(s, x) : s \in {t \in shorter : Len(t) = n - 1}, x \in S}

DepLists == SeqsUpTo(0..MaxDepIdx, MaxDeps)

SubTask == [description : {<<"d">>}, agent_type : AgentTypes, dependencies : DepLists]

Plans == UNION {[1..n -> SubTask] : n \in 1..MaxSubtasks}

(***************************************************************************)
(* The dependency loop of execute (coordinator.rs 181-193), in the order   *)
(* of the dependency list: the first dependency that is a forward          *)
(* reference or has a failed result decides.                               *)
(***************************************************************************)
\* variant: a forward reference is skipped instead of aborting
RECURSIVE CheckDependencies_SkipForward(_, _, _, _)
CheckDependencies_SkipForward(deps, k, i, res) ==
    IF k > Len(deps) THEN [kind |-> "pass"]
    ELSE IF deps[k] >= i THEN CheckDependencies_SkipForward(deps, k + 1, i, res)
    ELSE IF ~ res[deps[k] + 1].success THEN [kind |-> "failed", dep |-> deps[k]]
    ELSE CheckDependencies_SkipForward(deps, k + 1, i, res)

\* variant: the success flag of a dependency's result is never looked at
RECURSIVE CheckDependencies_IgnoreFailed(_, _, _, _)
CheckDependencies_IgnoreFailed(deps, k, i, res) ==
    IF k > Len(deps) THEN [kind |-> "pass"]
    ELSE IF deps[k] >= i THEN [kind |-> "forward"]
    ELSE CheckDependencies_IgnoreFailed(deps, k + 1, i, res)

\* variant: only the first dependency of the list is checked
CheckDependencies_FirstOnly(deps, k, i, res) ==
    IF k > Len(deps) THEN [kind |-> "pass"]
    ELSE IF deps[k] >= i THEN [kind |-> "forward"]
    ELSE IF ~ res[deps[k] + 1].success THEN [kind |-> "failed", dep |-> deps[k]]
    ELSE [kind |-> "pass"]

RECURSIVE CheckDependencies(_, _, _, _)
CheckDependencies(deps, k, i, res) ==
    IF k > Len(deps) THEN [kind |-> "pass"]
    ELSE IF deps[k] >= i THEN [kind |-> "forward"]
    ELSE IF ~ res[deps[k] + 1].success THEN [kind |-> "failed", dep |-> deps[k]]
    ELSE CheckDependencies(deps, k + 1, i, res)

CurrentCheck ==
    CheckDependencies(subtasks[idx + 1].dependencies, 1, idx, results)

ForwardReferenceResult ==
    AgentResultFailure(<<"Invalid dependency: forward reference">>)

DependencyFailedResult(d, i) ==
    AgentResultFailure(<<"Dependency ", d, " failed, skipping subtask ", i>>)

(***************************************************************************)
(* The summary of execute (coordinator.rs 209-220): one formatted line per *)
(* result, joined with "\n".                                               *)
(***************************************************************************)
SummaryLine(i, r) ==
    <<"Subtask ", i, ": ", IF r.success THEN "SUCCESS" ELSE "FAILED">>

RECURSIVE Join(_, _)
Join(lines, sep) ==
    IF Len(lines) = 0 THEN <<>>
    ELSE IF Len(lines) = 1 THEN lines[1]
    ELSE lines[1] \o <<sep>> \o Join(Tail(lines), sep)

Summary(res) == Join([i \in 1..Len(res) |-> SummaryLine(i - 1, res[i])], "\n")

\* variant: the flag keeps only the last result's success
AllSuccessFold_Last(flag, r) == r.success

\* coordinator.rs 205: all_success &= result.success
AllSuccessFold(flag, r) == flag /\ r.success

\* variant: only successful results are recorded
PushResult_OnlySuccess(res, r) == IF r.success THEN Append(res, r) ELSE res

\* coordinator.rs 206: results.push(result)
PushResult(res, r) == Append(res, r)

\* variant: the loop does not advance past a subtask whose handler returned
NextIndex_Stuck(i) == i

\* coordinator.rs 180: enumerate() moves to the next position
NextIndex(i) == i + 1

(***************************************************************************)
(* Text is a sequence of one-character strings.                            *)
(***************************************************************************)
UpperToLower ==
    "A" :> "a" @@ "B" :> "b" @@ "C" :> "c" @@ "D" :> "d" @@ "E" :> "e" @@ "F" :> "f" @@ "G" :> "g" @@ "H" :> "h" @@ "I" :> "i" @@ "J" :> "j" @@ "K" :> "k" @@ "L" :> "l" @@ "M" :> "m" @@ "N" :> "n" @@ "O" :> "o" @@ "P" :> "p" @@ "Q" :> "q" @@ "R" :> "r" @@ "S" :> "s" @@ "T" :> "t" @@ "U" :> "u" @@ "V" :> "v" @@ "W" :> "w" @@ "X" :> "x" @@ "Y" :> "y" @@ "Z" :> "z"

\* str::to_lowercase on the ASCII text of the model
to_lowercase(text) ==
    [i \in 1..Len(text) |->
        IF text[i] \in DOMAIN UpperToLower THEN UpperToLower[text[i]] ELSE text[i]]

\* str::contains(pattern)
contains(text, pat) ==
    \E i \in 1..(Len(text) - Len(pat) + 1) : SubSeq(text, i, i + Len(pat) - 1) = pat

None == [some |-> FALSE]

Some(v) == [some |-> TRUE, value |-> v]

\* str::find(ch): Some(0-based index of the first occurrence) or None
find(text, ch) ==
    IF \E i \in 1..Len(text) : text[i] = ch
    THEN Some((CHOOSE i \in 1..Len(text) :
                   text[i] = ch /\ \A j \in 1..(i - 1) : text[j] # ch) - 1)
    ELSE None

\* str::rfind(ch): Some(0-based index of the last occurrence) or None
rfind(text, ch) ==
    IF \E i \in 1..Len(text) : text[i] = ch
    THEN Some((CHOOSE i \in 1..Len(text) :
                   text[i] = ch /\ \A j \in (i + 1)..Len(text) : text[j] # ch) - 1)
    ELSE None

(***************************************************************************)
(* infer_agent_type (coordinator.rs 99-125).                               *)
(***************************************************************************)
CodeKeywords == {<<"c", "o", "d", "e">>,
    <<"i", "m", "p", "l", "e", "m", "e", "n", "t">>,
    <<"w", "r", "i", "t", "e">>}

ShellKeywords == {<<"r", "u", "n">>,
    <<"e", "x", "e", "c", "u", "t", "e">>,
    <<"c", "o", "m", "m", "a", "n", "d">>}

FileKeywords == {<<"r", "e", "a", "d">>,
    <<"f", "i", "l", "e">>,
    <<"s", "e", "a", "r", "c", "h">>}

McpKeywords == {<<"m", "c", "p">>,
    <<"t", "o", "o", "l">>,
    <<"e", "x", "t", "e", "r", "n", "a", "l">>}

ContainsAny(text, keywords) == \E k \in keywords : contains(text, k)

\* variant: the shell keywords are tested before the code keywords
infer_agent_type_ShellFirst(t) ==
    LET task_lower == to_lowercase(t)
    IN  IF ContainsAny(task_lower, ShellKeywords) THEN "shell"
        ELSE IF ContainsAny(task_lower, CodeKeywords) THEN "code"
        ELSE IF ContainsAny(task_lower, FileKeywords) THEN "file"
        ELSE IF ContainsAny(task_lower, McpKeywords) THEN "mcp"
        ELSE "analysis"

infer_agent_type(t) ==
    LET task_lower == to_lowercase(t)
    IN  IF ContainsAny(task_lower, CodeKeywords) THEN "code"
        ELSE IF ContainsAny(task_lower, ShellKeywords) THEN "shell"
        ELSE IF ContainsAny(task_lower, FileKeywords) THEN "file"
        ELSE IF ContainsAny(task_lower, McpKeywords) THEN "mcp"
        ELSE "analysis"

(***************************************************************************)
(* serde_json::from_str::<Vec<SubTask>> on the text of the model.  The     *)
(* character "k" abbreviates the text                                      *)
(*   "description":"d","agent_type":"file","dependencies":                 *)
(* of a subtask object, "0" is a number, "x" is any other character.       *)
(***************************************************************************)
At(text, p) == IF p \in 1..Len(text) THEN text[p] ELSE "EOF"

ParseFail == [ok |-> FALSE]

RECURSIVE ParseNumbers(_, _, _)
ParseNumbers(text, p, acc) ==
    IF At(text, p) # "0" THEN ParseFail
    ELSE IF At(text, p + 1) = "," THEN ParseNumbers(text, p + 2, Append(acc, 0))
    ELSE IF At(text, p + 1) = "]" THEN [ok |-> TRUE, value |-> Append(acc, 0), next |-> p + 2]
    ELSE ParseFail

\* a Vec<usize> starting at p
ParseDependencies(text, p) ==
    IF At(text, p) # "[" THEN ParseFail
    ELSE IF At(text, p + 1) = "]" THEN [ok |-> TRUE, value |-> <<>>, next |-> p + 2]
    ELSE ParseNumbers(text, p + 1, <<>>)

\* a SubTask object starting at p
ParseSubTask(text, p) ==
    IF At(text, p) # "{" \/ At(text, p + 1) # "k" THEN ParseFail
    ELSE LET deps == ParseDependencies(text, p + 2)
         IN  IF ~ deps.ok \/ At(text, deps.next) # "}" THEN ParseFail
             ELSE [ok |-> TRUE,
                   value |-> [description |-> <<"d">>, agent_type |-> "file",
                              dependencies |-> deps.value],
                   next |-> deps.next + 1]

RECURSIVE ParseElements(_, _, _)
ParseElements(text, p, acc) ==
    LET obj == ParseSubTask(text, p)
    IN  IF ~ obj.ok THEN ParseFail
        ELSE IF At(text, obj.next) = ","
             THEN ParseElements(text, obj.next + 1, Append(acc, obj.value))
        ELSE IF At(text, obj.next) = "]" /\ obj.next = Len(text)
             THEN [ok |-> TRUE, value |-> Append(acc, obj.value)]
        ELSE ParseFail

from_str(text) ==
    IF At(text, 1) # "[" THEN ParseFail
    ELSE IF At(text, 2) = "]"
         THEN (IF Len(text) = 2 THEN [ok |-> TRUE, value |-> <<>>] ELSE ParseFail)
    ELSE ParseElements(text, 2, <<>>)

(***************************************************************************)
(* parse_subtasks (coordinator.rs 78-97) and decompose_task (61-76).       *)
(***************************************************************************)
FallbackPlan(fallback_task) ==
    << [description |-> fallback_task,
        agent_type |-> infer_agent_type(fallback_task),
        dependencies |-> <<>>] >>

\* &response[start..=end]: the slice, or a panic when start > end + 1
SliceInclusive(text, start, end) ==
    IF start > end + 1 THEN [kind |-> "panic"]
    ELSE [kind |-> "ok", value |-> SubSeq(text, start + 1, end + 1)]

parse_subtasks(resp, fallback_task) ==
    LET json_start == find(resp, "[")
        json_end == rfind(resp, "]")
    IN  IF json_start.some /\ json_end.some
        THEN LET json_str == SliceInclusive(resp, json_start.value, json_end.value)
             IN  IF json_str.kind = "panic" THEN [kind |-> "panic"]
                 ELSE LET parsed == from_str(json_str.value)
                      IN  IF parsed.ok /\ parsed.value # <<>>
                          THEN [kind |-> "ok", value |-> parsed.value]
                          ELSE [kind |-> "ok", value |-> FallbackPlan(fallback_task)]
        ELSE [kind |-> "ok", value |-> FallbackPlan(fallback_task)]

decompose_task(resp, t) ==
    LET parsed == parse_subtasks(resp, t)
    IN  IF parsed.kind = "panic" THEN parsed
        ELSE IF parsed.value = <<>> THEN [kind |-> "ok", value |-> FallbackPlan(t)]
        ELSE parsed

(***************************************************************************)
(* Inputs of the decomposer: task texts and completion responses.          *)
(***************************************************************************)
MaxWords == 2
MaxTokens == 5

Vocabulary ==
    { <<"C", "o", "d", "e">>,
      <<"i", "m", "p", "l", "e", "m", "e", "n", "t">>,
      <<"W", "R", "I", "T", "E">>,
      <<"R", "u", "n">>,
      <<"e", "x", "e", "c", "u", "t", "e">>,
      <<"c", "o", "m", "m", "a", "n", "d">>,
      <<"r", "e", "a", "d">>,
      <<"F", "i", "l", "e">>,
      <<"s", "e", "a", "r", "c", "h">>,
      <<"M", "C", "P">>,
      <<"t", "o", "o", "l">>,
      <<"e", "x", "t", "e", "r", "n", "a", "l">>,
      <<"a", "n", "a", "l", "y", "z", "e">>,
      <<"p", "r", "o", "f", "i", "l", "e">>,
      <<"p", "r", "u", "n", "e">>,
      <<"a">> }

RECURSIVE JoinWords(_)
JoinWords(ws) ==
    IF Len(ws) = 1 THEN ws[1] ELSE ws[1] \o <<" ">> \o JoinWords(Tail(ws))

InferTasks == {JoinWords(ws) : ws \in SeqsUpTo(Vocabulary, MaxWords) \ {<<>>}}

DecompTasks ==
    { <<"i", "m", "p", "l", "e", "m", "e", "n", "t", " ", "a", " ", "p", "a", "r", "s", "e", "r">>,
      <<"l", "i", "s", "t", " ", "t", "h", "e", " ", "t", "o", "o", "l", "s">>,
      <<"h", "e", "l", "l", "o">> }

\* fragments of a completion response; O and P are whole subtask objects
TokenText ==
    [ open |-> <<"[">>, close |-> <<"]">>, comma |-> <<",">>, other |-> <<"x">>,
      O |-> <<"{", "k", "[", "]", "}">>,
      P |-> <<"{", "k", "[", "0", "]", "}">> ]

Tokens == DOMAIN TokenText

RECURSIVE Expand(_)
Expand(ts) == IF ts = <<>> THEN <<>> ELSE TokenText[ts[1]] \o Expand(Tail(ts))

Responses == {Expand(ts) : ts \in SeqsUpTo(Tokens, MaxTokens)}

(***************************************************************************)
(* Actions of CoordinatorAgent::execute.                                   *)
(***************************************************************************)
NoOutcome == [kind |-> "none"]

ExecInit ==
    /\ pc = "start"
    /\ subtasks = <<>>
    /\ results = <<>>
    /\ all_success = TRUE
    /\ idx = 0
    /\ outcome = NoOutcome
    /\ calls = <<>>
    /\ active = {}
    /\ llm_calls = 0

\* coordinator.rs 175: decompose_task returned a plan
DecomposeTask ==
    /\ pc = "start"
    /\ \E plan \in Plans : subtasks' = plan
    /\ pc' = "loop"
    /\ llm_calls' = llm_calls + 1
    /\ UNCHANGED <<results, all_success, idx, outcome, calls, active>>
    /\ UNCHANGED outsideExec

\* a decomposition that calls the service a second time before giving up
DecomposeError_RetryOnce ==
    /\ pc = "start"
    /\ pc' = "done"
    /\ outcome' = [kind |-> "err", value |-> CompletionError]
    /\ llm_calls' = llm_calls + 2
    /\ UNCHANGED <<subtasks, results, all_success, idx, calls, active>>
    /\ UNCHANGED outsideExec

\* coordinator.rs 61, 175: the completion service failed, `?` propagates
DecomposeError ==
    /\ pc = "start"
    /\ pc' = "done"
    /\ outcome' = [kind |-> "err", value |-> CompletionError]
    /\ llm_calls' = llm_calls + 1
    /\ UNCHANGED <<subtasks, results, all_success, idx, calls, active>>
    /\ UNCHANGED outsideExec

\* coordinator.rs 181-193: a dependency check returns early
AbortOnDependency ==
    /\ pc = "loop"
    /\ idx < Len(subtasks)
    /\ CurrentCheck.kind # "pass"
    /\ outcome' = [kind |-> "ok",
                   value |-> IF CurrentCheck.kind = "forward"
                             THEN ForwardReferenceResult
                             ELSE DependencyFailedResult(CurrentCheck.dep, idx)]
    /\ pc' = "done"
    /\ UNCHANGED <<subtasks, results, all_success, idx, calls, active>>
    /\ UNCHANGED llm_calls
    /\ UNCHANGED outsideExec

\* coordinator.rs 140-143 via 195-203: registry.get is None, `?` propagates
UnknownHandler ==
    /\ pc = "loop"
    /\ idx < Len(subtasks)
    /\ CurrentCheck.kind = "pass"
    /\ RegistryGet(subtasks[idx + 1].agent_type) = "None"
    /\ outcome' = [kind |-> "err",
                   value |-> <<"Agent type '", subtasks[idx + 1].agent_type, "' not found">>]
    /\ pc' = "done"
    /\ UNCHANGED <<subtasks, results, all_success, idx, calls, active>>
    /\ UNCHANGED llm_calls
    /\ UNCHANGED outsideExec

\* coordinator.rs 145-147: agent.execute(...) is called and awaited
InvokeHandler ==
    /\ pc = "loop"
    /\ idx < Len(subtasks)
    /\ CurrentCheck.kind = "pass"
    /\ RegistryGet(subtasks[idx + 1].agent_type) # "None"
    /\ calls' = Append(calls, idx)
    /\ active' = active \cup {idx}
    /\ pc' = "in_handler"
    /\ UNCHANGED <<subtasks, results, all_success, idx, outcome>>
    /\ UNCHANGED llm_calls
    /\ UNCHANGED outsideExec

\* coordinator.rs 203-206: the handler returned Ok(result)
HandlerReturn ==
    /\ pc = "in_handler"
    /\ \E o \in HandlerOutcomes(subtasks[idx + 1].agent_type) :
          /\ o.kind = "ok"
          /\ all_success' = AllSuccessFold(all_success, o.value)
          /\ results' = PushResult(results, o.value)
          /\ llm_calls' = llm_calls + o.llm
    /\ active' = active \ {idx}
    /\ idx' = NextIndex(idx)
    /\ pc' = "loop"
    /\ UNCHANGED <<subtasks, outcome, calls>>
    /\ UNCHANGED outsideExec

\* coordinator.rs 203: the handler returned Err, `?` propagates
HandlerError ==
    /\ pc = "in_handler"
    /\ \E o \in HandlerOutcomes(subtasks[idx + 1].agent_type) :
          /\ o.kind = "err"
          /\ outcome' = [kind |-> "err", value |-> o.value]
          /\ llm_calls' = llm_calls + o.llm
    /\ active' = active \ {idx}
    /\ pc' = "done"
    /\ UNCHANGED <<subtasks, results, all_success, idx, calls>>
    /\ UNCHANGED outsideExec

\* coordinator.rs 209-226: the loop is over, aggregate
Aggregate ==
    /\ pc = "loop"
    /\ idx = Len(subtasks)
    /\ outcome' = [kind |-> "ok",
                   value |-> [success |-> all_success,
                              output |-> Summary(results),
                              metadata |-> EmptyMetadata]]
    /\ pc' = "done"
    /\ UNCHANGED <<subtasks, results, all_success, idx, calls, active>>
    /\ UNCHANGED llm_calls
    /\ UNCHANGED outsideExec

ExecNext ==
    \/ DecomposeTask
    \/ DecomposeError
    \/ AbortOnDependency
    \/ UnknownHandler
    \/ InvokeHandler
    \/ HandlerReturn
    \/ HandlerError
    \/ Aggregate

(***************************************************************************)
(* Actions of decompose_task and of infer_agent_type.                      *)
(***************************************************************************)
DecompIdle ==
    /\ task = <<>>
    /\ response = <<>>
    /\ dpc = "idle"
    /\ dresult = NoOutcome
    /\ inferred = "none"

DecompInit ==
    /\ task \in DecompTasks
    /\ response = <<>>
    /\ dpc = "call"
    /\ dresult = NoOutcome
    /\ inferred = "none"

\* coordinator.rs 61: the completion service returned a text
LlmRespond ==
    /\ dpc = "call"
    /\ response' \in Responses
    /\ dpc' = "parse"
    /\ UNCHANGED <<task, dresult, inferred>>
    /\ UNCHANGED outsideDecomp

\* coordinator.rs 61: the completion service failed, `?` propagates
LlmFail ==
    /\ dpc = "call"
    /\ dresult' = [kind |-> "err", value |-> CompletionError]
    /\ dpc' = "done"
    /\ UNCHANGED <<task, response, inferred>>
    /\ UNCHANGED outsideDecomp

\* coordinator.rs 65-75: parse_subtasks returned and decompose_task returns Ok
ParseReturn ==
    /\ dpc = "parse"
    /\ decompose_task(response, task).kind = "ok"
    /\ dresult' = decompose_task(response, task)
    /\ dpc' = "done"
    /\ UNCHANGED <<task, response, inferred>>
    /\ UNCHANGED outsideDecomp

\* coordinator.rs 83: the slice expression panics, decompose_task never returns
ParsePanic ==
    /\ dpc = "parse"
    /\ decompose_task(response, task).kind = "panic"
    /\ dresult' = [kind |-> "panic"]
    /\ dpc' = "panicked"
    /\ UNCHANGED <<task, response, inferred>>
    /\ UNCHANGED outsideDecomp

DecompNext ==
    \/ LlmRespond
    \/ LlmFail
    \/ ParseReturn
    \/ ParsePanic

InferInit ==
    /\ task \in InferTasks
    /\ response = <<>>
    /\ dpc = "infer"
    /\ dresult = NoOutcome
    /\ inferred = "none"

\* coordinator.rs 99-125
InferAgentType ==
    /\ dpc = "infer"
    /\ inferred' = infer_agent_type(task)
    /\ dpc' = "inferred"
    /\ UNCHANGED <<task, response, dresult>>
    /\ UNCHANGED outsideDecomp

InferNext ==
    \/ InferAgentType

(***************************************************************************)
(* The MCP tool-process manager (src/mcp/client.rs) over McpServer         *)
(* instances (src/mcp/server.rs).  Tasks run McpClient operations          *)
(* concurrently; the steps of an operation are its await points.           *)
(***************************************************************************)
NumTasks == 2
MaxInstances == 3

ProviderNames == {"a", "b"}

ToolNames == {"search", "fetch"}

TaskIds == 1..NumTasks

\* McpServer::new (server.rs 30-36); spawned, kills, leaked, dropped and
\* outstanding record what has happened to the instance and its children
NewServer(n) ==
    [name |-> n, process |-> FALSE, tools |-> {},
     spawned |-> FALSE, kills |-> 0, leaked |-> 0, dropped |-> FALSE, outstanding |-> 0]

\* server.rs 51-52: the new child's handle is stored; a handle already held
\* is dropped by the assignment, and dropping a tokio Child neither kills
\* nor waits for the process
Spawn(srv) ==
    [srv EXCEPT !.process = TRUE, !.spawned = TRUE,
                !.leaked = IF srv.process THEN @ + 1 ELSE @]

\* a drop that lets the handle go without signalling the child
DropServer_NoKill(srv) ==
    [srv EXCEPT !.process = FALSE, !.dropped = TRUE, !.tools = {}, !.outstanding = 0]

\* impl Drop for McpServer (server.rs 144-154)
DropServer(srv) ==
    IF srv.process
    THEN [srv EXCEPT !.process = FALSE, !.kills = @ + 1, !.dropped = TRUE,
                     !.tools = {}, !.outstanding = 0]
    ELSE [srv EXCEPT !.dropped = TRUE, !.tools = {}, !.outstanding = 0]

\* a stop that issues a kill whether or not a handle is held
StopOk_AlwaysKill(srv) == [srv EXCEPT !.process = FALSE, !.kills = @ + 1]

\* McpServer::stop returning Ok (server.rs 135-141)
StopOk(srv) ==
    IF srv.process
    THEN [srv EXCEPT !.process = FALSE, !.kills = @ + 1]
    ELSE srv

\* McpServer::stop returning Err: the handle is taken, then kill().await fails
StopErr(srv) == [srv EXCEPT !.process = FALSE, !.kills = @ + 1]

\* McpResponse (protocol.rs 54-60); result and error are None or Some(value)
McpResponse(success, result, error) ==
    [success |-> success, result |-> result, error |-> error]

ToolList(T) == [kind |-> "tools", tools |-> T]

OtherValue == [kind |-> "value"]

Boom == <<"b", "o", "o", "m">>

\* McpResponse::error("MCP server not running") (protocol.rs 72-78, server.rs 103)
NotRunningResponse ==
    McpResponse(FALSE, None,
                Some(<<"M", "C", "P", " ", "s", "e", "r", "v", "e", "r", " ",
                       "n", "o", "t", " ", "r", "u", "n", "n", "i", "n", "g">>))

\* the lines a child can answer a ListTools request with
DiscoveryResponses ==
    {McpResponse(TRUE, Some(ToolList(T)), None) : T \in SUBSET ToolNames}
        \cup { McpResponse(TRUE, Some(OtherValue), None), McpResponse(TRUE, None, None),
               McpResponse(FALSE, None, Some(Boom)) }

\* the lines a child can answer a CallTool request with
CallResponses ==
    { McpResponse(TRUE, Some(OtherValue), None), McpResponse(TRUE, None, None),
      McpResponse(FALSE, None, Some(Boom)), McpResponse(FALSE, Some(OtherValue), Some(Boom)) }

\* <str as Debug>::fmt: the text between double quotes, with the double
\* quote and the backslash escaped
RECURSIVE EscapeDebug(_)
EscapeDebug(text) ==
    IF text = <<>> THEN <<>>
    ELSE (IF Head(text) \in {"\"", "\\"} THEN <<"\\", Head(text)>> ELSE <<Head(text)>>)
            \o EscapeDebug(Tail(text))

\* format!("{:?}", Option<String>)
DebugOption(opt) ==
    IF opt.some
    THEN <<"S", "o", "m", "e", "(", "\"">> \o EscapeDebug(opt.value) \o <<"\"", ")">>
    ELSE <<"N", "o", "n", "e">>

\* a discovery that empties the cache when the response carries no tool list
DiscoveredTools_ClearOnFailure(srv, resp) ==
    IF resp.success /\ resp.result.some /\ resp.result.value.kind = "tools"
    THEN resp.result.value.tools
    ELSE {}

\* discover_tools (server.rs 65-78): the tool cache after the response
DiscoveredTools(srv, resp) ==
    IF resp.success /\ resp.result.some /\ resp.result.value.kind = "tools"
    THEN resp.result.value.tools
    ELSE srv.tools

OkUnit == [kind |-> "ok", value |-> [kind |-> "unit"], detail |-> <<>>]

Err(msg) == [kind |-> "err", value |-> [kind |-> "message", text |-> msg], detail |-> <<>>]

\* the literal part of format!("Tool call failed: {:?}", response.error)
ToolCallFailed ==
    <<"T", "o", "o", "l", " ", "c", "a", "l", "l", " ",
      "f", "a", "i", "l", "e", "d", ":", " ">>

\* McpServer::call_tool on a response (server.rs 118-124); detail is the
\* full text of a formatted error message
CallToolResult(resp) ==
    IF resp.success
    THEN IF resp.result.some
         THEN [kind |-> "ok", value |-> resp.result.value, detail |-> <<>>]
         ELSE Err("No result from tool call")
    ELSE [Err("Tool call failed") EXCEPT !.detail = ToolCallFailed \o DebugOption(resp.error)]

\* get_tool (server.rs 131-133)
get_tool(srv, tool) == tool \in srv.tools

\* a scan that returns the first entry it meets, whatever it exposes
FindTool_AnyRegistered(tool) == {n \in ProviderNames : servers[n] # 0}

\* find_tool (client.rs 47-57): the providers a scan of the map can return
FindTool(tool) ==
    {n \in ProviderNames : servers[n] # 0 /\ get_tool(instances[servers[n]], tool)}

IdleTask ==
    [op |-> "idle", pc |-> "idle", name |-> "none", tool |-> "none", inst |-> 0,
     todo |-> {}, resp |-> None, ret |-> NoOutcome]

Return(t, r) == [th EXCEPT ![t] = [IdleTask EXCEPT !.ret = r]]

McpInit ==
    /\ servers = [n \in ProviderNames |-> 0]
    /\ instances = <<>>
    /\ writer = 0
    /\ th = [t \in TaskIds |-> IdleTask]

\* client.rs 23-27: register_server is called, McpServer::new
BeginRegister(t, n) ==
    /\ th[t].op = "idle"
    /\ Len(instances) < MaxInstances
    /\ instances' = Append(instances, NewServer(n))
    /\ th' = [th EXCEPT ![t] = [IdleTask EXCEPT !.op = "register", !.pc = "spawn",
                                                !.name = n, !.inst = Len(instances) + 1]]
    /\ UNCHANGED <<servers, writer>>
    /\ UNCHANGED outsideMcp

\* server.rs 51-52: spawn succeeded, the instance holds the child
SpawnOk(t) ==
    /\ th[t].pc = "spawn"
    /\ instances' = [instances EXCEPT ![th[t].inst] = Spawn(@)]
    /\ th' = [th EXCEPT ![t].pc = "discover"]
    /\ UNCHANGED <<servers, writer>>
    /\ UNCHANGED outsideMcp

\* server.rs 51, client.rs 28: spawn failed, `?` propagates, the server is dropped
SpawnFail(t) ==
    /\ th[t].pc = "spawn"
    /\ instances' = [instances EXCEPT ![th[t].inst] = DropServer(@)]
    /\ th' = Return(t, Err("spawn failed"))
    /\ UNCHANGED <<servers, writer>>
    /\ UNCHANGED outsideMcp

\* server.rs 85-89 from discover_tools: the ListTools request line is written
DiscoverSend(t) ==
    /\ th[t].pc = "discover"
    /\ instances' = [instances EXCEPT ![th[t].inst].outstanding = @ + 1]
    /\ th' = [th EXCEPT ![t].pc = "discover_read"]
    /\ UNCHANGED <<servers, writer>>
    /\ UNCHANGED outsideMcp

\* server.rs 91-99, 69-77: the response line is read and parsed, start returns Ok
DiscoverRecv(t) ==
    /\ th[t].pc = "discover_read"
    /\ \E resp \in DiscoveryResponses :
          instances' = [instances EXCEPT
                          ![th[t].inst].outstanding = @ - 1,
                          ![th[t].inst].tools = DiscoveredTools(instances[th[t].inst], resp)]
    /\ th' = [th EXCEPT ![t].pc = "insert"]
    /\ UNCHANGED <<servers, writer>>
    /\ UNCHANGED outsideMcp

\* a failed registration that also takes the name's entry out of the map
DiscoverFail_Evict(t) ==
    /\ th[t].pc \in {"discover", "discover_read"}
    /\ writer = 0
    /\ servers' = [servers EXCEPT ![th[t].name] = 0]
    /\ instances' = [i \in 1..Len(instances) |->
                        IF i = th[t].inst \/ i = servers[th[t].name]
                        THEN DropServer(instances[i]) ELSE instances[i]]
    /\ th' = Return(t, Err("discovery failed"))
    /\ UNCHANGED writer
    /\ UNCHANGED outsideMcp

\* server.rs 86-96, client.rs 28: an I/O error or an unparseable line, start
\* returns Err, the server is dropped while it holds the child
DiscoverFail(t) ==
    /\ th[t].pc \in {"discover", "discover_read"}
    /\ instances' = [instances EXCEPT ![th[t].inst] = DropServer(@)]
    /\ th' = Return(t, Err("discovery failed"))
    /\ UNCHANGED <<servers, writer>>
    /\ UNCHANGED outsideMcp

\* client.rs 30-33: under the write guard, insert; a replaced value is dropped
RegisterInsert(t) ==
    /\ th[t].pc = "insert"
    /\ writer = 0
    /\ servers' = [servers EXCEPT ![th[t].name] = th[t].inst]
    /\ instances' = IF servers[th[t].name] # 0
                    THEN [instances EXCEPT ![servers[th[t].name]] = DropServer(@)]
                    ELSE instances
    /\ th' = Return(t, OkUnit)
    /\ UNCHANGED writer
    /\ UNCHANGED outsideMcp

\* client.rs 59-63: call_tool is called
BeginCall(t, tool) ==
    /\ th[t].op = "idle"
    /\ th' = [th EXCEPT ![t] = [IdleTask EXCEPT !.op = "call", !.pc = "find",
                                                !.tool = tool]]
    /\ UNCHANGED <<servers, instances, writer>>
    /\ UNCHANGED outsideMcp

\* a call that, finding no provider for the tool, goes on to some provider
CallFindNone_Forward(t) ==
    /\ th[t].pc = "find"
    /\ writer = 0
    /\ FindTool(th[t].tool) = {}
    /\ \E n \in ProviderNames :
          th' = [th EXCEPT ![t].name = n, ![t].pc = "forward"]
    /\ UNCHANGED <<servers, instances, writer>>
    /\ UNCHANGED outsideMcp

\* client.rs 64-67: find_tool under the read guard finds no provider
CallFindNone(t) ==
    /\ th[t].pc = "find"
    /\ writer = 0
    /\ FindTool(th[t].tool) = {}
    /\ th' = Return(t, Err("Tool not found"))
    /\ UNCHANGED <<servers, instances, writer>>
    /\ UNCHANGED outsideMcp

\* client.rs 64-69: find_tool returns the first provider its scan meets
CallFindSome(t) ==
    /\ th[t].pc = "find"
    /\ writer = 0
    /\ \E n \in FindTool(th[t].tool) :
          th' = [th EXCEPT ![t].name = n, ![t].pc = "forward"]
    /\ UNCHANGED <<servers, instances, writer>>
    /\ UNCHANGED outsideMcp

\* client.rs 71-74: under the write guard the resolved name has no entry
CallServerGone(t) ==
    /\ th[t].pc = "forward"
    /\ writer = 0
    /\ servers[th[t].name] = 0
    /\ th' = Return(t, Err("Server not found"))
    /\ UNCHANGED <<servers, instances, writer>>
    /\ UNCHANGED outsideMcp

\* client.rs 76, server.rs 81, 103: the entry holds no child, send_request
\* answers "MCP server not running" and call_tool returns Err
CallNotRunning(t) ==
    /\ th[t].pc = "forward"
    /\ writer = 0
    /\ servers[th[t].name] # 0
    /\ ~ instances[servers[th[t].name]].process
    /\ th' = Return(t, CallToolResult(NotRunningResponse))
    /\ UNCHANGED <<servers, instances, writer>>
    /\ UNCHANGED outsideMcp

\* a forward that writes the request line without waiting for the guard
CallSend_Unguarded(t) ==
    /\ th[t].pc = "forward"
    /\ servers[th[t].name] # 0
    /\ instances[servers[th[t].name]].process
    /\ writer' = t
    /\ instances' = [instances EXCEPT ![servers[th[t].name]].outstanding = @ + 1]
    /\ th' = [th EXCEPT ![t].inst = servers[th[t].name], ![t].pc = "await_response"]
    /\ UNCHANGED servers
    /\ UNCHANGED outsideMcp

\* client.rs 71-76, server.rs 85-89: the write guard is taken and the
\* CallTool request line is written
CallSend(t) ==
    /\ th[t].pc = "forward"
    /\ writer = 0
    /\ servers[th[t].name] # 0
    /\ instances[servers[th[t].name]].process
    /\ writer' = t
    /\ instances' = [instances EXCEPT ![servers[th[t].name]].outstanding = @ + 1]
    /\ th' = [th EXCEPT ![t].inst = servers[th[t].name], ![t].pc = "await_response"]
    /\ UNCHANGED servers
    /\ UNCHANGED outsideMcp

\* client.rs 71-76, server.rs 86-88: the write guard is taken, writing the
\* request line fails, `?` returns the error
CallSendFail(t) ==
    /\ th[t].pc = "forward"
    /\ writer = 0
    /\ servers[th[t].name] # 0
    /\ instances[servers[th[t].name]].process
    /\ th' = Return(t, Err("io error"))
    /\ UNCHANGED <<servers, instances, writer>>
    /\ UNCHANGED outsideMcp

\* server.rs 91-99, 118-124: the response line is read, call_tool returns
CallRecv(t) ==
    /\ th[t].pc = "await_response"
    /\ \E resp \in CallResponses : th' = Return(t, CallToolResult(resp))
    /\ instances' = [instances EXCEPT ![th[t].inst].outstanding = @ - 1]
    /\ writer' = 0
    /\ UNCHANGED servers
    /\ UNCHANGED outsideMcp

\* server.rs 94-96: reading or parsing the response line fails
CallRecvFail(t) ==
    /\ th[t].pc = "await_response"
    /\ th' = Return(t, Err("io error"))
    /\ instances' = [instances EXCEPT ![th[t].inst].outstanding = @ - 1]
    /\ writer' = 0
    /\ UNCHANGED servers
    /\ UNCHANGED outsideMcp

\* client.rs 91: stop_server is called
BeginStop(t, n) ==
    /\ th[t].op = "idle"
    /\ th' = [th EXCEPT ![t] = [IdleTask EXCEPT !.op = "stop", !.pc = "stop", !.name = n]]
    /\ UNCHANGED <<servers, instances, writer>>
    /\ UNCHANGED outsideMcp

\* client.rs 92-99: no entry under the name
StopServerAbsent(t) ==
    /\ th[t].pc = "stop"
    /\ writer = 0
    /\ servers[th[t].name] = 0
    /\ th' = Return(t, OkUnit)
    /\ UNCHANGED <<servers, instances, writer>>
    /\ UNCHANGED outsideMcp

\* client.rs 92-99: stop returned Ok, the entry is removed and dropped
StopServerOk(t) ==
    /\ th[t].pc = "stop"
    /\ writer = 0
    /\ servers[th[t].name] # 0
    /\ instances' = [instances EXCEPT ![servers[th[t].name]] = DropServer(StopOk(@))]
    /\ servers' = [servers EXCEPT ![th[t].name] = 0]
    /\ th' = Return(t, OkUnit)
    /\ UNCHANGED writer
    /\ UNCHANGED outsideMcp

\* client.rs 95: stop returned Err (the kill failed), `?` returns before remove
StopServerKillFail(t) ==
    /\ th[t].pc = "stop"
    /\ writer = 0
    /\ servers[th[t].name] # 0
    /\ instances[servers[th[t].name]].process
    /\ instances' = [instances EXCEPT ![servers[th[t].name]] = StopErr(@)]
    /\ th' = Return(t, Err("kill failed"))
    /\ UNCHANGED <<servers, writer>>
    /\ UNCHANGED outsideMcp

\* client.rs 79: stop_all is called
BeginStopAll(t) ==
    /\ th[t].op = "idle"
    /\ th' = [th EXCEPT ![t] = [IdleTask EXCEPT !.op = "stop_all", !.pc = "stop_all"]]
    /\ UNCHANGED <<servers, instances, writer>>
    /\ UNCHANGED outsideMcp

\* client.rs 80-82: the write guard is taken, the iteration starts
StopAllLock(t) ==
    /\ th[t].pc = "stop_all"
    /\ writer = 0
    /\ writer' = t
    /\ th' = [th EXCEPT ![t].pc = "stop_all_loop",
                        ![t].todo = {n \in ProviderNames : servers[n] # 0}]
    /\ UNCHANGED <<servers, instances>>
    /\ UNCHANGED outsideMcp

\* an iteration that passes over the next server without stopping it
StopAllNext_Skip(t) ==
    /\ th[t].pc = "stop_all_loop"
    /\ \E n \in th[t].todo : th' = [th EXCEPT ![t].todo = @ \ {n}]
    /\ UNCHANGED <<servers, instances, writer>>
    /\ UNCHANGED outsideMcp

\* client.rs 82-85: stop of the next server of the iteration returned Ok
StopAllNext(t) ==
    /\ th[t].pc = "stop_all_loop"
    /\ \E n \in th[t].todo :
          /\ instances' = [instances EXCEPT ![servers[n]] = StopOk(@)]
          /\ th' = [th EXCEPT ![t].todo = @ \ {n}]
    /\ UNCHANGED <<servers, writer>>
    /\ UNCHANGED outsideMcp

\* client.rs 84: stop of the next server returned Err, `?` returns before clear
StopAllKillFail(t) ==
    /\ th[t].pc = "stop_all_loop"
    /\ \E n \in th[t].todo :
          /\ instances[servers[n]].process
          /\ instances' = [instances EXCEPT ![servers[n]] = StopErr(@)]
    /\ th' = Return(t, Err("kill failed"))
    /\ writer' = 0
    /\ UNCHANGED servers
    /\ UNCHANGED outsideMcp

\* client.rs 87-88: clear drops every entry, stop_all returns Ok
StopAllClear(t) ==
    /\ th[t].pc = "stop_all_loop"
    /\ th[t].todo = {}
    /\ instances' = [i \in 1..Len(instances) |->
                        IF \E n \in ProviderNames : servers[n] = i
                        THEN DropServer(instances[i]) ELSE instances[i]]
    /\ servers' = [n \in ProviderNames |-> 0]
    /\ th' = Return(t, OkUnit)
    /\ writer' = 0
    /\ UNCHANGED outsideMcp

McpNext ==
    \/ \E t \in TaskIds, n \in ProviderNames : BeginRegister(t, n)
    \/ \E t \in TaskIds : SpawnOk(t)
    \/ \E t \in TaskIds : SpawnFail(t)
    \/ \E t \in TaskIds : DiscoverSend(t)
    \/ \E t \in TaskIds : DiscoverRecv(t)
    \/ \E t \in TaskIds : DiscoverFail(t)
    \/ \E t \in TaskIds : RegisterInsert(t)
    \/ \E t \in TaskIds, tool \in ToolNames : BeginCall(t, tool)
    \/ \E t \in TaskIds : CallFindNone(t)
    \/ \E t \in TaskIds : CallFindSome(t)
    \/ \E t \in TaskIds : CallServerGone(t)
    \/ \E t \in TaskIds : CallNotRunning(t)
    \/ \E t \in TaskIds : CallSend(t)
    \/ \E t \in TaskIds : CallSendFail(t)
    \/ \E t \in TaskIds : CallRecv(t)
    \/ \E t \in TaskIds : CallRecvFail(t)
    \/ \E t \in TaskIds, n \in ProviderNames : BeginStop(t, n)
    \/ \E t \in TaskIds : StopServerAbsent(t)
    \/ \E t \in TaskIds : StopServerOk(t)
    \/ \E t \in TaskIds : StopServerKillFail(t)
    \/ \E t \in TaskIds : BeginStopAll(t)
    \/ \E t \in TaskIds : StopAllLock(t)
    \/ \E t \in TaskIds : StopAllNext(t)
    \/ \E t \in TaskIds : StopAllKillFail(t)
    \/ \E t \in TaskIds : StopAllClear(t)

(***************************************************************************)
(* One McpServer value in the hands of its owner (src/mcp/server.rs): the  *)
(* public methods are called in any order on instances[1]; th[1] records   *)
(* the last method called and what it returned.                            *)
(***************************************************************************)
MaxKills == 2
MaxLeaked == 1
MaxErrLen == 2

ErrChars == {"b", "\"", "\\"}

\* the remote error texts a response line can carry
ErrorTexts == SeqsUpTo(ErrChars, MaxErrLen) \cup {Boom}

\* the response lines serde_json::from_str accepts as an McpResponse
ServerResponses ==
    { McpResponse(success, result, error) :
        success \in BOOLEAN,
        result \in {None, Some(OtherValue), Some(ToolList({"search"}))},
        error \in {None} \cup {Some(text) : text \in ErrorTexts} }

Called(method, r) == [th EXCEPT ![1] = [IdleTask EXCEPT !.op = method, !.ret = r]]

ServerInit ==
    /\ servers = [n \in ProviderNames |-> 0]
    /\ instances = <<NewServer("a")>>
    /\ writer = 0
    /\ th = [t \in TaskIds |-> IdleTask]

\* server.rs 38-63: spawn and discovery succeed, start returns Ok
ServerStartOk ==
    /\ ~ instances[1].dropped
    /\ instances[1].kills < MaxKills
    /\ instances[1].process => instances[1].leaked < MaxLeaked
    /\ \E resp \in DiscoveryResponses :
          /\ instances' = [instances EXCEPT
                             ![1] = [Spawn(instances[1]) EXCEPT
                                       !.tools = DiscoveredTools(instances[1], resp)]]
          /\ th' = [Called("start", OkUnit) EXCEPT ![1].resp = Some(resp)]
    /\ UNCHANGED <<servers, writer>>
    /\ UNCHANGED outsideMcp

\* server.rs 51: spawn fails, `?` returns before the handle is stored
ServerStartSpawnFail ==
    /\ ~ instances[1].dropped
    /\ th' = Called("start", Err("spawn failed"))
    /\ UNCHANGED <<servers, instances, writer>>
    /\ UNCHANGED outsideMcp

\* server.rs 51-54: the handle is stored, then discovery fails with an I/O
\* or parse error and `?` returns it
ServerStartDiscoverFail ==
    /\ ~ instances[1].dropped
    /\ instances[1].kills < MaxKills
    /\ instances[1].process => instances[1].leaked < MaxLeaked
    /\ instances' = [instances EXCEPT ![1] = Spawn(@)]
    /\ th' = Called("start", Err("discovery failed"))
    /\ UNCHANGED <<servers, writer>>
    /\ UNCHANGED outsideMcp

\* server.rs 135-141: stop returns Ok
ServerStopOk ==
    /\ ~ instances[1].dropped
    /\ instances' = [instances EXCEPT ![1] = StopOk(@)]
    /\ th' = Called("stop", OkUnit)
    /\ UNCHANGED <<servers, writer>>
    /\ UNCHANGED outsideMcp

\* server.rs 136-138: the handle is taken, the kill fails, stop returns Err
ServerStopKillFail ==
    /\ ~ instances[1].dropped
    /\ instances[1].process
    /\ instances' = [instances EXCEPT ![1] = StopErr(@)]
    /\ th' = Called("stop", Err("kill failed"))
    /\ UNCHANGED <<servers, writer>>
    /\ UNCHANGED outsideMcp

\* server.rs 106-125 with send_request 80-104: one exchange, or the
\* "not running" answer when no handle is held
ServerCallTool ==
    /\ ~ instances[1].dropped
    /\ \E line \in ServerResponses :
          LET resp == IF instances[1].process THEN line ELSE NotRunningResponse
          IN  th' = [Called("call_tool", CallToolResult(resp)) EXCEPT ![1].resp = Some(resp)]
    /\ UNCHANGED <<servers, instances, writer>>
    /\ UNCHANGED outsideMcp

\* server.rs 86-96: writing, reading or parsing the line fails
ServerCallToolIoFail ==
    /\ ~ instances[1].dropped
    /\ instances[1].process
    /\ th' = Called("call_tool", Err("io error"))
    /\ UNCHANGED <<servers, instances, writer>>
    /\ UNCHANGED outsideMcp

\* server.rs 127-129: get_tools hands out the cache
ServerGetTools ==
    /\ ~ instances[1].dropped
    /\ th' = Called("get_tools",
                    [kind |-> "ok", value |-> ToolList(instances[1].tools), detail |-> <<>>])
    /\ UNCHANGED <<servers, instances, writer>>
    /\ UNCHANGED outsideMcp

\* server.rs 131-133: get_tool looks the name up in the cache
ServerGetTool ==
    /\ ~ instances[1].dropped
    /\ \E tool \in ToolNames :
          th' = [Called("get_tool",
                        [kind |-> "ok",
                         value |-> [kind |-> "option",
                                    some |-> get_tool(instances[1], tool)],
                         detail |-> <<>>])
                 EXCEPT ![1].tool = tool]
    /\ UNCHANGED <<servers, instances, writer>>
    /\ UNCHANGED outsideMcp

\* server.rs 144-154: the owner lets the value go
ServerDrop ==
    /\ ~ instances[1].dropped
    /\ instances' = [instances EXCEPT ![1] = DropServer(@)]
    /\ th' = Called("drop", NoOutcome)
    /\ UNCHANGED <<servers, writer>>
    /\ UNCHANGED outsideMcp

ServerNext ==
    \/ ServerStartOk
    \/ ServerStartSpawnFail
    \/ ServerStartDiscoverFail
    \/ ServerStopOk
    \/ ServerStopKillFail
    \/ ServerCallTool
    \/ ServerCallToolIoFail
    \/ ServerGetTools
    \/ ServerGetTool
    \/ ServerDrop

(***************************************************************************)
(* The permission gate (src/permissions.rs) and the tool primitives that   *)
(* the handlers call (src/tools/executor.rs): read_file, write_file,       *)
(* list_files, search_files, execute_shell.  Callers hold clones of one    *)
(* gate; a step is one lock of the mode, one line read from the terminal,  *)
(* or one effect on the file system or the process table.                  *)
(***************************************************************************)
NumCallers == 2

Callers == 1..NumCallers

Primitives == {"read_file", "write_file", "list_files", "search_files", "execute_shell"}

Whitespace == {" ", "\n", "\t", "\r"}

RECURSIVE trim_start(_)
trim_start(text) ==
    IF text # <<>> /\ Head(text) \in Whitespace THEN trim_start(Tail(text)) ELSE text

RECURSIVE trim_end(_)
trim_end(text) ==
    IF text # <<>> /\ text[Len(text)] \in Whitespace
    THEN trim_end(SubSeq(text, 1, Len(text) - 1))
    ELSE text

\* str::trim
trim(text) == trim_end(trim_start(text))

\* what read_line can put into `input`: the line with its newline, or
\* nothing at end of input
InputLines ==
    { <<"y", "\n">>, <<"Y", "E", "S", "\n">>, <<" ", "n", "\n">>, <<"N", "o", "\r", "\n">>,
      <<"a", "\n">>, <<"A", "l", "l", " ", "\n">>, <<"q", "\n">>, <<"Q", "U", "I", "T", "\n">>,
      <<"y", "y", "\n">>, <<"x", "\n">>, <<"\n">>, <<>> }

\* a match that takes "q" for a grant as well
Decision_QuitAllows(input) ==
    LET choice == to_lowercase(trim(input))
    IN  CASE choice \in {<<"y">>, <<"y", "e", "s">>, <<"q">>, <<"q", "u", "i", "t">>} -> "allow"
          [] choice \in {<<"n">>, <<"n", "o">>} -> "deny"
          [] choice \in {<<"a">>, <<"a", "l", "l">>} -> "escalate"
          [] OTHER -> "invalid"

\* permissions.rs 78-100, 125-147: match input.trim().to_lowercase().as_str()
Decision(input) ==
    LET choice == to_lowercase(trim(input))
    IN  CASE choice \in {<<"y">>, <<"y", "e", "s">>} -> "allow"
          [] choice \in {<<"n">>, <<"n", "o">>} -> "deny"
          [] choice \in {<<"a">>, <<"a", "l", "l">>} -> "escalate"
          [] choice \in {<<"q">>, <<"q", "u", "i", "t">>} -> "cancel"
          [] OTHER -> "invalid"

\* a read that hands back the mode the gate was constructed with
ModeRead_Stale(m) == "Ask"

\* permissions.rs 26, 36: self.mode.lock().unwrap().clone()
ModeRead(m) == m

\* a request that prompts whatever the mode is
NeedsPrompt_Always(observed) == TRUE

\* permissions.rs 28-31, 38-41: match current_mode
NeedsPrompt(observed) == observed = "Ask"

\* an assignment that every grant performs
ModeAfter_AnyGrant(m, decision) ==
    IF decision \in {"allow", "escalate"} THEN "AllowAll" ELSE m

\* permissions.rs 89, 136: only the "a" | "all" arm assigns the mode
ModeAfter(m, decision) == IF decision = "escalate" THEN "AllowAll" ELSE m

\* permissions.rs 79-96, 126-143: the arms that return true
Granted(decision) == decision \in {"allow", "escalate"}

\* a check made for write_file alone
GateConsulted_WriteOnly(op) == op = "write_file"

\* executor.rs 51-62, 125-130: the primitives that ask the gate
GateConsulted(op) == op \in {"write_file", "execute_shell"}

\* executor.rs 60, 128: the error a refused primitive returns
DeniedError(op) == IF op = "write_file" THEN WriteDenied ELSE ShellDenied

NoInput == [kind |-> "none"]

ToolOk == [kind |-> "ok"]

ToolErr(error) == [kind |-> "err", value |-> error]

IdleCaller ==
    [op |-> "idle", pc |-> "idle", observed |-> "none", input |-> NoInput,
     gate |-> "none", prompted |-> FALSE, effects |-> {}, ret |-> NoOutcome]

GateIdle ==
    /\ mode = "Ask"
    /\ pm = TRUE
    /\ cl = [c \in Callers |-> IdleCaller]

\* permissions.rs 18-22, executor.rs 17-27, system.rs 42-43: the gate is
\* constructed in either mode; the executor of AgentSystem::new has the
\* gate, the one of ToolExecutor::new alone has none
GateInit ==
    /\ mode \in {"Ask", "AllowAll"}
    /\ pm \in BOOLEAN
    /\ cl = [c \in Callers |-> IdleCaller]

\* executor.rs 38, 47, 75, 96, 121: a primitive is called; 51, 125: whether
\* it goes to the gate first
ToolBegin(c, op) ==
    /\ cl[c].pc \in {"idle", "done"}
    /\ cl' = [cl EXCEPT ![c] =
                [IdleCaller EXCEPT !.op = op,
                                   !.pc = IF pm /\ GateConsulted(op) THEN "gate"
                                          ELSE "perform"]]
    /\ UNCHANGED <<mode, pm>>
    /\ UNCHANGED outsideGate

\* permissions.rs 25-31, 35-41: the request reads the mode and either
\* returns true or goes on to prompt
GateRead(c) ==
    /\ cl[c].pc = "gate"
    /\ LET observed == ModeRead(mode)
       IN  cl' = [cl EXCEPT ![c].observed = observed,
                            ![c].gate = IF NeedsPrompt(observed) THEN "none" ELSE "true",
                            ![c].pc = IF NeedsPrompt(observed) THEN "prompt" ELSE "perform"]
    /\ UNCHANGED <<mode, pm>>
    /\ UNCHANGED outsideGate

\* permissions.rs 69-101, 116-148: one turn of the prompt loop on a line
PromptRead(c) ==
    /\ cl[c].pc = "prompt"
    /\ \E line \in InputLines :
          LET decision == Decision(line)
          IN  /\ mode' = ModeAfter(mode, decision)
              /\ cl' = [cl EXCEPT
                          ![c].input = [kind |-> "line", text |-> line],
                          ![c].prompted = TRUE,
                          ![c].gate = IF decision = "invalid" THEN "none"
                                      ELSE IF Granted(decision) THEN "true" ELSE "false",
                          ![c].pc = IF decision = "invalid" THEN "prompt"
                                    ELSE IF Granted(decision) THEN "perform" ELSE "bail"]
    /\ UNCHANGED pm
    /\ UNCHANGED outsideGate

\* permissions.rs 74-76, 121-123: read_line fails, the request returns false
PromptReadError(c) ==
    /\ cl[c].pc = "prompt"
    /\ cl' = [cl EXCEPT ![c].input = [kind |-> "error"],
                        ![c].prompted = TRUE,
                        ![c].gate = "false",
                        ![c].pc = "bail"]
    /\ UNCHANGED <<mode, pm>>
    /\ UNCHANGED outsideGate

\* a refused primitive that returns Ok without doing anything
Bail_SilentSkip(c) ==
    /\ cl[c].pc = "bail"
    /\ cl' = [cl EXCEPT ![c].ret = ToolOk, ![c].pc = "done"]
    /\ UNCHANGED <<mode, pm>>
    /\ UNCHANGED outsideGate

\* executor.rs 58-61, 126-129: the request returned false, bail!
Bail(c) ==
    /\ cl[c].pc = "bail"
    /\ cl' = [cl EXCEPT ![c].ret = ToolErr(DeniedError(cl[c].op)), ![c].pc = "done"]
    /\ UNCHANGED <<mode, pm>>
    /\ UNCHANGED outsideGate

\* executor.rs 38-45, 75-94, 96-119: the reading primitives; search_files
\* skips what it cannot read and always returns Ok
ReadOnly(c) ==
    /\ cl[c].pc = "perform"
    /\ cl[c].op \in {"read_file", "list_files", "search_files"}
    /\ \E ok \in IF cl[c].op = "search_files" THEN {TRUE} ELSE BOOLEAN :
          cl' = [cl EXCEPT ![c].effects = @ \cup {"read"},
                           ![c].ret = IF ok THEN ToolOk ELSE ToolErr(IoError),
                           ![c].pc = "done"]
    /\ UNCHANGED <<mode, pm>>
    /\ UNCHANGED outsideGate

\* executor.rs 66-68: create_dir_all(parent)
WriteCreateDir(c) ==
    /\ cl[c].pc = "perform"
    /\ cl[c].op = "write_file"
    /\ \E ok \in BOOLEAN :
          cl' = [cl EXCEPT ![c].effects = IF ok THEN @ \cup {"create_dir"} ELSE @,
                           ![c].ret = IF ok THEN @ ELSE ToolErr(IoError),
                           ![c].pc = IF ok THEN "write" ELSE "done"]
    /\ UNCHANGED <<mode, pm>>
    /\ UNCHANGED outsideGate

\* executor.rs 70-72: fs::write
WriteFile(c) ==
    /\ cl[c].pc = "write"
    /\ \E ok \in BOOLEAN :
          cl' = [cl EXCEPT ![c].effects = IF ok THEN @ \cup {"write"} ELSE @,
                           ![c].ret = IF ok THEN ToolOk ELSE ToolErr(IoError),
                           ![c].pc = "done"]
    /\ UNCHANGED <<mode, pm>>
    /\ UNCHANGED outsideGate

\* executor.rs 137-161: the command is spawned and awaited; a command that
\* exits with a failure status is still Ok
ShellSpawn(c) ==
    /\ cl[c].pc = "perform"
    /\ cl[c].op = "execute_shell"
    /\ \E ok \in BOOLEAN :
          cl' = [cl EXCEPT ![c].effects = IF ok THEN @ \cup {"spawn"} ELSE @,
                           ![c].ret = IF ok THEN ToolOk ELSE ToolErr(IoError),
                           ![c].pc = "done"]
    /\ UNCHANGED <<mode, pm>>
    /\ UNCHANGED outsideGate

GateNext ==
    \/ \E c \in Callers, op \in Primitives : ToolBegin(c, op)
    \/ \E c \in Callers : GateRead(c)
    \/ \E c \in Callers : PromptRead(c)
    \/ \E c \in Callers : PromptReadError(c)
    \/ \E c \in Callers : Bail(c)
    \/ \E c \in Callers : ReadOnly(c)
    \/ \E c \in Callers : WriteCreateDir(c)
    \/ \E c \in Callers : WriteFile(c)
    \/ \E c \in Callers : ShellSpawn(c)

(***************************************************************************)
(* McpAgent::execute (src/agents/mcp_agent.rs): the tools are listed, the  *)
(* completion names the tool calls, each is made through the manager, and  *)
(* the outcomes are joined into one AgentResult.                           *)
(***************************************************************************)
MaxToolCalls == 3

\* what McpClient::call_tool can return as Err: the tool is not found, the
\* provider reports a failure, the response does not parse
ProviderErrors == {"Tool not found", "Tool call failed", "parse error"}

NoToolsCalled == <<"No MCP tools were called">>

\* mcp_agent.rs 100-102: the Err arm pushes a line into results
ToolFailedLine(e) == [kind |-> "failed", error |-> e]

\* mcp_agent.rs 96-99: the Ok arm pushes a line into results
ToolResultLine == [kind |-> "result"]

\* mcp_agent.rs 108-112: failure only when nothing was pushed
AgentOutcome(lines) ==
    IF lines = <<>> THEN [kind |-> "ok", value |-> [success |-> FALSE, output |-> NoToolsCalled]]
    ELSE [kind |-> "ok", value |-> [success |-> TRUE, output |-> lines]]

McpAgentIdle == ma = [pc |-> "idle", todo |-> 0, lines |-> <<>>, out |-> NoOutcome]

\* mcp_agent.rs 44-54: execute is entered; list_all_tools always returns Ok
McpAgentBegin ==
    /\ ma.pc \in {"idle", "done"}
    /\ ma' = [pc |-> "llm", todo |-> 0, lines |-> <<>>, out |-> NoOutcome]
    /\ UNCHANGED outsideAgent

\* mcp_agent.rs 86-88: the completion returns and parse_tool_calls finds n calls
McpAgentLlmRespond ==
    /\ ma.pc = "llm"
    /\ \E n \in 0..MaxToolCalls : ma' = [ma EXCEPT !.pc = "calls", !.todo = n]
    /\ UNCHANGED outsideAgent

\* mcp_agent.rs 86: the completion fails, `?` returns the error
McpAgentLlmFail ==
    /\ ma.pc = "llm"
    /\ ma' = [ma EXCEPT !.pc = "done", !.out = [kind |-> "err", value |-> CompletionError]]
    /\ UNCHANGED outsideAgent

\* mcp_agent.rs 94-99: call_tool returned Ok
McpAgentCallOk ==
    /\ ma.pc = "calls"
    /\ ma.todo > 0
    /\ ma' = [ma EXCEPT !.todo = @ - 1, !.lines = Append(@, ToolResultLine)]
    /\ UNCHANGED outsideAgent

\* mcp_agent.rs 94, 100-102: call_tool returned Err, the loop goes on
McpAgentCallErr ==
    /\ ma.pc = "calls"
    /\ ma.todo > 0
    /\ \E e \in ProviderErrors :
          ma' = [ma EXCEPT !.todo = @ - 1, !.lines = Append(@, ToolFailedLine(e))]
    /\ UNCHANGED outsideAgent

\* mcp_agent.rs 105-112: the loop is over, the result is returned
McpAgentFinish ==
    /\ ma.pc = "calls"
    /\ ma.todo = 0
    /\ ma' = [ma EXCEPT !.pc = "done", !.out = AgentOutcome(ma.lines)]
    /\ UNCHANGED outsideAgent

McpAgentNext ==
    \/ McpAgentBegin
    \/ McpAgentLlmRespond
    \/ McpAgentLlmFail
    \/ McpAgentCallOk
    \/ McpAgentCallErr
    \/ McpAgentFinish

(***************************************************************************)
(* AgentRegistry (src/agents/base.rs) as AgentSystem::new fills it.        *)
(***************************************************************************)
\* system.rs 34-37: the order of the register calls
RegistrationOrder == <<"code", "shell", "file", "analysis">>

\* code.rs 43-51, shell.rs 40-42, file.rs 40-42, analysis.rs 40-47
Keywords(agent) ==
    CASE agent = "code" ->
          { <<"c", "o", "d", "e">>,
            <<"i", "m", "p", "l", "e", "m", "e", "n", "t">>,
            <<"f", "u", "n", "c", "t", "i", "o", "n">>,
            <<"c", "l", "a", "s", "s">>,
            <<"w", "r", "i", "t", "e">>,
            <<"g", "e", "n", "e", "r", "a", "t", "e">>,
            <<"r", "e", "f", "a", "c", "t", "o", "r">> }
      [] agent = "shell" ->
          { <<"r", "u", "n">>,
            <<"e", "x", "e", "c", "u", "t", "e">>,
            <<"c", "o", "m", "m", "a", "n", "d">>,
            <<"s", "h", "e", "l", "l">>,
            <<"b", "a", "s", "h">>,
            <<"s", "c", "r", "i", "p", "t">>,
            <<"i", "n", "s", "t", "a", "l", "l">>,
            <<"b", "u", "i", "l", "d">>,
            <<"t", "e", "s", "t">> }
      [] agent = "file" ->
          { <<"r", "e", "a", "d">>,
            <<"w", "r", "i", "t", "e">>,
            <<"f", "i", "l", "e">>,
            <<"c", "r", "e", "a", "t", "e">>,
            <<"d", "e", "l", "e", "t", "e">>,
            <<"c", "o", "p", "y">>,
            <<"m", "o", "v", "e">>,
            <<"s", "e", "a", "r", "c", "h">> }
      [] agent = "analysis" ->
          { <<"a", "n", "a", "l", "y", "z", "e">>,
            <<"e", "x", "p", "l", "a", "i", "n">>,
            <<"r", "e", "v", "i", "e", "w">>,
            <<"u", "n", "d", "e", "r", "s", "t", "a", "n", "d">>,
            <<"i", "n", "v", "e", "s", "t", "i", "g", "a", "t", "e">>,
            <<"e", "x", "a", "m", "i", "n", "e">> }

\* code.rs 52, shell.rs 43, file.rs 43, analysis.rs 48
can_handle(agent, t) == \E kw \in Keywords(agent) : contains(to_lowercase(t), kw)

Range(f) == {f[i] : i \in DOMAIN f}

\* the orders in which a HashMap with these keys can iterate
IterationOrders(keys) ==
    {f \in [1..Cardinality(keys) -> keys] : Range(f) = keys}

NoTask == <<>>

\* words that make zero, one or two of the registered handlers capable
RegistryWords ==
    { <<"W", "R", "I", "T", "E">>,
      <<"R", "u", "n">>,
      <<"a", "n", "a", "l", "y", "z", "e">>,
      <<"p", "r", "o", "f", "i", "l", "e">>,
      <<"a">> }

RegistryTasks == {JoinWords(ws) : ws \in SeqsUpTo(RegistryWords, MaxWords) \ {<<>>}}

\* base.rs 138-139: self.agents.values()
Traversal(r) == r.order

\* base.rs 137-143: filter(can_handle) over the traversal, collected
find_capable(r, t) == SelectSeq(Traversal(r), LAMBDA a : can_handle(a, t))

NoRoute == [kind |-> "none", agent |-> "none"]

\* a dispatch that goes to the first capable handler whenever there is one
Route_FirstCapable(found) ==
    IF Len(found) >= 1 THEN [kind |-> "direct", agent |-> found[1]]
    ELSE [kind |-> "coordinator", agent |-> "coordinator"]

\* system.rs 62-89: capable_agents.len() == 1 goes to capable_agents[0],
\* anything else to self.coordinator
Route(found) ==
    IF Len(found) = 1 THEN [kind |-> "direct", agent |-> found[1]]
    ELSE [kind |-> "coordinator", agent |-> "coordinator"]

RegistryIdle ==
    reg = [order |-> RegistrationOrder, task |-> NoTask, found |-> <<>>, route |-> NoRoute]

\* system.rs 32-39, base.rs 129-131: the map after the four inserts; its
\* iteration order is fixed by the hasher, not by the order of the inserts
RegistryInit ==
    \E o \in IterationOrders(Range(RegistrationOrder)) :
        reg = [order |-> o, task |-> NoTask, found |-> <<>>, route |-> NoRoute]

\* system.rs 57-89: execute_task asks the registry and picks the path
FindCapable ==
    /\ \E t \in RegistryTasks :
          LET capable_agents == find_capable(reg, t)
          IN  reg' = [reg EXCEPT !.task = t, !.found = capable_agents,
                                 !.route = Route(capable_agents)]
    /\ UNCHANGED outsideReg

RegistryNext ==
    \/ FindCapable

(***************************************************************************)
(* Specifications: the executor, the decomposer, the keyword inference,    *)
(* the tool-process manager, one tool process.                             *)
(***************************************************************************)
Others == GateIdle /\ McpAgentIdle /\ RegistryIdle

Init == ExecInit /\ DecompIdle /\ McpInit /\ Others

Next == ExecNext

Spec == Init /\ [][Next]_vars

DecompSpecInit == DecompInit /\ ExecInit /\ McpInit /\ Others

DecompSpec == DecompSpecInit /\ [][DecompNext]_vars

InferSpecInit == InferInit /\ ExecInit /\ McpInit /\ Others

InferSpec == InferSpecInit /\ [][InferNext]_vars

McpSpecInit == McpInit /\ ExecInit /\ DecompIdle /\ Others

McpSpec == McpSpecInit /\ [][McpNext]_vars

ServerSpecInit == ServerInit /\ ExecInit /\ DecompIdle /\ Others

ServerSpec == ServerSpecInit /\ [][ServerNext]_vars

GateSpecInit == GateInit /\ ExecInit /\ DecompIdle /\ McpInit /\ McpAgentIdle /\ RegistryIdle

GateSpec == GateSpecInit /\ [][GateNext]_vars

McpAgentSpecInit == McpAgentIdle /\ ExecInit /\ DecompIdle /\ McpInit /\ GateIdle /\ RegistryIdle

McpAgentSpec == McpAgentSpecInit /\ [][McpAgentNext]_vars

RegistrySpecInit == RegistryInit /\ ExecInit /\ DecompIdle /\ McpInit /\ GateIdle /\ McpAgentIdle

RegistrySpec == RegistrySpecInit /\ [][RegistryNext]_vars

(***************************************************************************)
(* Vocabulary of the executor claims.                                      *)
(***************************************************************************)
Deps(j) == subtasks[j + 1].dependencies

\* the executor is at, or has halted at, position idx of a decomposed plan
Reached == pc \in {"loop", "in_handler", "done"} /\ idx < Len(subtasks)

HasForwardRef(j) == \E k \in 1..Len(Deps(j)) : Deps(j)[k] >= j

FailedAt(d) == d < Len(results) /\ ~ results[d + 1].success

HasFailedDep(j) == \E k \in 1..Len(Deps(j)) : Deps(j)[k] < j /\ FailedAt(Deps(j)[k])

DepsPass(j) == \A k \in 1..Len(Deps(j)) : Deps(j)[k] < j /\ ~ FailedAt(Deps(j)[k])

NoHandlerFrom(j) == \A n \in 1..Len(calls) : calls[n] < j

ForwardPositions(j) == {k \in 1..Len(Deps(j)) : Deps(j)[k] >= j}

FailedPositions(j) == {k \in 1..Len(Deps(j)) : Deps(j)[k] < j /\ FailedAt(Deps(j)[k])}

Least(S) == CHOOSE k \in S : \A m \in S : k <= m

HaltedWith(r) == pc = "done" /\ outcome = [kind |-> "ok", value |-> r]

\* C1 as stated: a subtask with a dependency index d >= i always halts the
\* execution at i with the forward-reference failure, i results recorded and
\* no handler invoked for i or later.
C1_Original ==
    (Reached /\ HasForwardRef(idx)) =>
        /\ pc # "in_handler"
        /\ Len(results) = idx
        /\ NoHandlerFrom(idx)
        /\ pc = "done" => HaltedWith(ForwardReferenceResult)

\* C1 amended: a subtask with a dependency index d >= i halts the execution
\* at i with a failure result, i results recorded and no handler invoked for
\* i or later; the result is the forward-reference failure unless a
\* dependency listed before the first forward reference has a failed result,
\* and then it is the unmet-dependency failure naming that dependency.
C1_ForwardReferenceHalts ==
    (Reached /\ HasForwardRef(idx)) =>
        /\ pc # "in_handler"
        /\ Len(results) = idx
        /\ NoHandlerFrom(idx)
        /\ pc = "done" =>
              LET f == Least(ForwardPositions(idx))
                  before == {k \in FailedPositions(idx) : k < f}
              IN  IF before = {}
                  THEN HaltedWith(ForwardReferenceResult)
                  ELSE HaltedWith(DependencyFailedResult(Deps(idx)[Least(before)], idx))

C1_Witness ==
    /\ Reached /\ idx > 0 /\ HasForwardRef(idx)
    /\ HaltedWith(ForwardReferenceResult)

\* C2 as stated: a subtask j that lists a failed earlier subtask d halts the
\* execution at j with a failure naming an unmet dependency, j's handler is
\* never invoked and the results hold only the subtasks before j.
C2_Original ==
    (Reached /\ HasFailedDep(idx)) =>
        /\ pc # "in_handler"
        /\ Len(results) = idx
        /\ NoHandlerFrom(idx)
        /\ pc = "done" =>
              \E k \in FailedPositions(idx) :
                  HaltedWith(DependencyFailedResult(Deps(idx)[k], idx))

\* C2 amended: a subtask j that lists a failed earlier subtask d halts the
\* execution at j with a failure result, j's handler is never invoked and
\* the results hold only the subtasks before j; the result names the first
\* failed dependency of j's list unless a forward reference is listed before
\* it, and then it is the forward-reference failure.
C2_FailedDependencyHalts ==
    (Reached /\ HasFailedDep(idx)) =>
        /\ pc # "in_handler"
        /\ Len(results) = idx
        /\ NoHandlerFrom(idx)
        /\ pc = "done" =>
              LET g == Least(FailedPositions(idx))
                  before == {k \in ForwardPositions(idx) : k < g}
              IN  IF before = {}
                  THEN HaltedWith(DependencyFailedResult(Deps(idx)[g], idx))
                  ELSE HaltedWith(ForwardReferenceResult)

\* [A, B(deps=[0]), C(deps=[0,1])], A succeeded, B failed: halted at C
C2_Witness ==
    /\ Len(subtasks) = 3 /\ idx = 2
    /\ Deps(0) = <<>> /\ Deps(1) = <<0>> /\ Deps(2) = <<0, 1>>
    /\ Len(results) = 2 /\ results[1].success /\ ~ results[2].success
    /\ calls = <<0, 1>>
    /\ HaltedWith(DependencyFailedResult(1, 2))

\* C3 as stated: once a handler has returned a failed result, no handler of
\* any later subtask is invoked.
C3_Original ==
    [][(\E n \in 1..Len(results) : ~ results[n].success) => calls' = calls]_vars

\* C3 amended: the plan is aborted at the first subtask that lists a failed
\* subtask as a dependency, regardless of branch independence: no handler is
\* invoked for that subtask or for any later one, even a later one that does
\* not depend on the failed subtask. (A failed result alone does not stop
\* later subtasks that do not list it.)
C3_AbortAtFirstDependent ==
    \A j \in 0..(Len(subtasks) - 1) :
        (\E k \in 1..Len(Deps(j)) : Deps(j)[k] < j /\ FailedAt(Deps(j)[k]))
            => NoHandlerFrom(j)

\* halted at a dependent of a failed subtask while an independent subtask is left
C3_Witness ==
    /\ pc = "done" /\ idx + 1 < Len(subtasks)
    /\ HasFailedDep(idx) /\ ~ HasForwardRef(idx)
    /\ \E j \in (idx + 1)..(Len(subtasks) - 1) : Deps(j) = <<>>
    /\ NoHandlerFrom(idx)

\* C4: when a handler returns for subtask i its result is appended at index
\* i, success or failure, and the executor moves to i+1; the execution halts
\* with a dependency failure result only at a subtask that lists a failed (or
\* forward) dependency, and a subtask reached with passing dependencies and a
\* registered handler has its handler invoked even after earlier failures.
C4_ResultAppendedAndContinue ==
    [][ /\ (pc = "in_handler" /\ pc' = "loop") =>
              /\ Len(results') = idx + 1
              /\ SubSeq(results', 1, idx) = results
              /\ \E o \in HandlerOutcomes(subtasks[idx + 1].agent_type) :
                     o.kind = "ok" /\ results'[idx + 1] = o.value
              /\ idx' = idx + 1
        /\ (pc = "loop" /\ pc' = "done" /\ idx < Len(subtasks)
                /\ outcome'.kind = "ok") =>
              HasForwardRef(idx) \/ HasFailedDep(idx)
        /\ (pc = "loop" /\ idx < Len(subtasks) /\ DepsPass(idx)
                /\ subtasks[idx + 1].agent_type \in RegisteredAgents) =>
              pc' = "in_handler" /\ calls' = Append(calls, idx)
      ]_vars

\* a failed result is recorded and a later subtask's result follows it
C4_Witness ==
    \E d \in 1..Len(results) : ~ results[d].success /\ Len(results) > d

\* C5: when the loop completes, success is the AND of all subtask results
\* and the output is one "Subtask i: SUCCESS|FAILED" line per subtask in
\* index order, with empty metadata.
C5_Aggregate ==
    (pc = "done" /\ outcome.kind = "ok" /\ idx = Len(subtasks)) =>
        LET n == Len(results)
            out == outcome.value.output
        IN  /\ n = Len(subtasks)
            /\ outcome.value.success = (\A i \in 1..n : results[i].success)
            /\ outcome.value.metadata = {}
            /\ Len(out) = 5 * n - 1
            /\ \A i \in 0..(n - 1) :
                   /\ out[5 * i + 1] = "Subtask "
                   /\ out[5 * i + 2] = i
                   /\ out[5 * i + 3] = ": "
                   /\ out[5 * i + 4] = (IF results[i + 1].success THEN "SUCCESS" ELSE "FAILED")
                   /\ i < n - 1 => out[5 * i + 5] = "\n"

\* a completed three-subtask loop with a failure followed by a success
C5_Witness ==
    /\ pc = "done" /\ outcome.kind = "ok" /\ idx = Len(subtasks) /\ idx = 3
    /\ ~ results[2].success /\ results[3].success
    /\ results[3].metadata # {}

\* steps execute can still take: two per subtask left, one to aggregate
ExecRank ==
    CASE pc = "start" -> 2 * MaxSubtasks + 2
      [] pc = "loop" -> 2 * (Len(subtasks) - idx) + 1
      [] pc = "in_handler" -> 2 * (Len(subtasks) - idx)
      [] pc = "done" -> 0

\* C6: handlers are invoked strictly in list order, one at a time, each at
\* most once: handler i is invoked only after the calls of 0..i-1 returned,
\* at most one call is in flight, at most n calls are made, and the execution
\* terminates: until it has returned a step is always possible, and every
\* step lowers a rank bounded by the plan length.
C6_Sequential ==
    /\ [](/\ \A n \in 1..Len(calls) : calls[n] = n - 1
          /\ Len(calls) <= Len(subtasks)
          /\ Cardinality(active) <= 1
          /\ pc = "in_handler" =>
                active = {idx} /\ Len(results) = idx /\ Len(calls) = idx + 1
          /\ pc # "in_handler" => active = {}
          /\ pc # "done" => ENABLED ExecNext
          /\ ExecRank >= 0)
    /\ [][ExecRank' < ExecRank]_vars

\* the third handler is running after two independent subtasks returned
C6_Witness ==
    /\ pc = "in_handler" /\ idx = 2 /\ calls = <<0, 1, 2>>
    /\ Deps(0) = <<>> /\ Deps(1) = <<>> /\ Deps(2) = <<>>

\* C7: a subtask that passes its dependency checks but names a handler that
\* is not registered ends the execution with the unknown-handler error in
\* the next step; its handler and those of later subtasks are never invoked.
C7_UnknownHandler ==
    [][ /\ (pc = "loop" /\ idx < Len(subtasks) /\ DepsPass(idx)
                /\ subtasks[idx + 1].agent_type \notin RegisteredAgents) =>
              /\ pc' = "done"
              /\ outcome' = [kind |-> "err",
                             value |-> <<"Agent type '", subtasks[idx + 1].agent_type,
                                         "' not found">>]
              /\ calls' = calls /\ results' = results
        /\ pc = "done" => calls' = calls
      ]_vars

\* the second subtask, depending on a succeeded first one, names "mcp"
C7_Witness ==
    /\ pc = "done" /\ idx = 1 /\ Len(subtasks) > 2
    /\ Deps(1) = <<0>> /\ results[1].success
    /\ subtasks[2].agent_type = "mcp"
    /\ outcome.kind = "err" /\ calls = <<0>>

(***************************************************************************)
(* Claims about the decomposer.                                            *)
(***************************************************************************)
\* the text from the first "[" to the last "]" is a non-empty Subtask array
ParseableArray(resp) ==
    \E a \in 1..Len(resp), b \in 1..Len(resp) :
        /\ resp[a] = "[" /\ \A j \in 1..(a - 1) : resp[j] # "["
        /\ resp[b] = "]" /\ \A j \in (b + 1)..Len(resp) : resp[j] # "]"
        /\ a <= b
        /\ from_str(SubSeq(resp, a, b)).ok
        /\ from_str(SubSeq(resp, a, b)).value # <<>>

\* C8: for every completion text, decompose returns a non-empty plan, and
\* when the text between the first "[" and the last "]" is not a parseable
\* non-empty Subtask array the plan is the single fallback subtask
\* (description = task, no dependencies, keyword-inferred handler).
C8_DecomposeNeverEmpty ==
    (dpc \in {"done", "panicked"} /\ dresult.kind # "err") =>
        /\ dresult.kind = "ok"
        /\ Len(dresult.value) >= 1
        /\ ~ ParseableArray(response) =>
              dresult.value = << [description |-> task,
                                  agent_type |-> infer_agent_type(task),
                                  dependencies |-> <<>>] >>

\* "not json"-like text for the task "implement a parser": one code subtask
C8_Witness ==
    /\ dpc = "done" /\ dresult.kind = "ok"
    /\ response = <<"x", "x", "x">>
    /\ Len(dresult.value) = 1 /\ dresult.value[1].agent_type = "code"
    /\ dresult.value[1].description = task

\* C9: the fallback handler is the one of the highest-precedence keyword
\* class (code, shell, file, mcp) that the lower-cased task text contains,
\* and "analysis" when it contains none.
C9_KeywordPrecedence ==
    dpc = "inferred" =>
        LET lower == to_lowercase(task)
            classes == << [name |-> "code", keywords |-> CodeKeywords],
                          [name |-> "shell", keywords |-> ShellKeywords],
                          [name |-> "file", keywords |-> FileKeywords],
                          [name |-> "mcp", keywords |-> McpKeywords] >>
            matched == {c \in 1..4 : \E k \in classes[c].keywords : contains(lower, k)}
        IN  IF matched = {}
            THEN inferred = "analysis"
            ELSE inferred = classes[Least(matched)].name

\* "Run Code": a shell keyword and a code keyword, upper case included
C9_Witness ==
    /\ dpc = "inferred" /\ inferred = "code"
    /\ contains(to_lowercase(task), <<"r", "u", "n">>)
    /\ contains(to_lowercase(task), <<"c", "o", "d", "e">>)
    /\ ~ contains(task, <<"c", "o", "d", "e">>)

(***************************************************************************)
(* Claims about the tool-process manager.                                  *)
(***************************************************************************)
\* a stop_all holds the write guard and is walking the map
TeardownInProgress == writer # 0 /\ th[writer].op = "stop_all"

\* the instance is the candidate of a register that has not returned yet
MidRegistration(i) == \E t \in TaskIds : th[t].op = "register" /\ th[t].inst = i

\* C10: every provider name present in the map refers to a ToolProcess that
\* is running (holds a live child handle) or is mid-registration, under any
\* interleaving and also when a kill fails; a stop_all that is still walking
\* the map under its exclusive guard is not counted.
C10_MapHoldsOnlyRunning ==
    ~ TeardownInProgress =>
        \A n \in ProviderNames :
            servers[n] # 0 =>
                \/ instances[servers[n]].process
                \/ MidRegistration(servers[n])

(***************************************************************************)
(* Claims about one tool process.                                          *)
(***************************************************************************)
\* unstarted: no child was ever spawned; running: a handle is held;
\* stopped: a child was spawned and the handle is gone
Lifecycle(srv) ==
    IF srv.process THEN "running"
    ELSE IF srv.spawned THEN "stopped" ELSE "unstarted"

LifecycleRank(srv) ==
    CASE Lifecycle(srv) = "unstarted" -> 0
      [] Lifecycle(srv) = "running" -> 1
      [] Lifecycle(srv) = "stopped" -> 2

\* C11: a tool process only moves forward through unstarted, running,
\* stopped: no method called on the instance, start included, takes a
\* stopped instance back to running.
C11_ForwardOnly ==
    [][ /\ LifecycleRank(instances'[1]) >= LifecycleRank(instances[1])
        /\ Lifecycle(instances[1]) = "stopped" => ~ instances'[1].process
      ]_vars

\* C12: stop on an instance that holds no handle (already stopped or never
\* started) returns success, issues no kill and leaves the instance, its
\* tool cache included, as it was.
C12_StopIdempotent ==
    [][ (th'[1].op = "stop" /\ ~ instances[1].process) =>
            /\ th'[1].ret = OkUnit
            /\ instances' = instances
      ]_vars

\* stop has returned success on an instance that was never started
C12_Witness ==
    /\ th[1].op = "stop" /\ th[1].ret = OkUnit
    /\ Lifecycle(instances[1]) = "unstarted"
    /\ instances[1].kills = 0 /\ ~ instances[1].dropped

(***************************************************************************)
(* Claims about the tool-process manager, continued.                       *)
(***************************************************************************)
InstanceIds == 1..Len(instances)

\* C13: whenever an instance that still holds a child handle is destroyed
\* (the candidate of a failed register, a replaced entry, a removed entry),
\* a termination signal is issued to its child in that step.
C13_DropKillsChild ==
    [][ \A i \in InstanceIds :
            (instances[i].process /\ ~ instances[i].dropped /\ instances'[i].dropped) =>
                instances'[i].kills = instances[i].kills + 1
      ]_vars

\* the only instance ever created was spawned, failed discovery inside
\* register, was dropped with its handle and got the signal
C13_Witness ==
    /\ Len(instances) = 1
    /\ instances[1].spawned /\ instances[1].dropped /\ instances[1].kills = 1
    /\ servers = [n \in ProviderNames |-> 0]
    /\ th[1].ret = Err("discovery failed") /\ th[2].ret = NoOutcome

\* C14: register under a name already in the map replaces the entry with
\* the newly started instance, and the replaced instance is not stopped by
\* it: it keeps its handle and its child receives no kill.
C14_ReplaceKeepsOld ==
    [][ \A t \in TaskIds :
            (th[t].pc = "insert" /\ th'[t].pc = "idle" /\ servers[th[t].name] # 0) =>
                /\ servers'[th[t].name] = th[t].inst
                /\ instances'[servers[th[t].name]].kills = instances[servers[th[t].name]].kills
                /\ instances'[servers[th[t].name]].process
                      = instances[servers[th[t].name]].process
      ]_vars

\* C15: a request line is written to a provider only when no earlier
\* request to it still awaits its response line, under every interleaving:
\* each provider has at most one outstanding request, and a call that has
\* written its one request line is the one that reads the one response line.
C15_OneOutstanding ==
    /\ [](\A i \in InstanceIds : instances[i].outstanding <= 1)
    /\ [](\A t \in TaskIds :
            th[t].pc \in {"await_response", "discover_read"} =>
                instances[th[t].inst].outstanding = 1)
    /\ [][ \A i \in InstanceIds :
             /\ instances'[i].outstanding > instances[i].outstanding =>
                  instances[i].outstanding = 0 /\ instances'[i].outstanding = 1
             /\ instances'[i].outstanding < instances[i].outstanding =>
                  \E t \in TaskIds :
                     /\ th[t].inst = i
                     /\ th[t].pc \in {"await_response", "discover_read"}
                     /\ th'[t].pc # th[t].pc
         ]_vars

\* one call awaits its response from a provider while a second call resolved
\* to the same provider has not written its request
C15_Witness ==
    \E t1 \in TaskIds, t2 \in TaskIds :
        /\ th[t1].pc = "await_response" /\ th[t2].pc = "forward"
        /\ th[t2].name = th[t1].name
        /\ servers[th[t1].name] = th[t1].inst
        /\ instances[th[t1].inst].outstanding = 1

\* two calls are inside their exchanges at once (request written, response
\* line not yet read)
ConcurrentExchanges ==
    \E t1 \in TaskIds, t2 \in TaskIds :
        /\ t1 # t2
        /\ th[t1].pc = "await_response" /\ th[t2].pc = "await_response"

\* C16: calls resolved to different registered providers do not serialize:
\* while one call awaits its response line, a call resolved to another
\* running provider can write its own request.
C16_IndependentProviders ==
    \A t1 \in TaskIds, t2 \in TaskIds :
        ( /\ th[t1].pc = "await_response" /\ th[t2].pc = "forward"
          /\ th[t2].name # th[t1].name
          /\ servers[th[t1].name] = th[t1].inst
          /\ servers[th[t2].name] # 0
          /\ instances[servers[th[t2].name]].process )
            => ENABLED CallSend(t2)

\* what the manager does instead: no two exchanges are ever in progress at
\* the same time, whichever providers they address
C16_ExchangesSerialize == ~ ConcurrentExchanges

(***************************************************************************)
(* Claims about one tool process, continued.                               *)
(***************************************************************************)
\* C17: call_tool returns a value exactly when the response has success and
\* carries a result, and then that result unchanged; success without a
\* result is an error; a response without success is an error whose message
\* contains the remote error text, whatever else the response carries.
C17_CallToolResult ==
    (th[1].op = "call_tool" /\ th[1].resp.some) =>
        LET resp == th[1].resp.value
            r == th[1].ret
        IN  /\ r.kind = "ok" <=> (resp.success /\ resp.result.some)
            /\ r.kind = "ok" => r.value = resp.result.value
            /\ r.kind # "ok" => r.kind = "err"
            /\ (~ resp.success /\ resp.error.some) => contains(r.detail, resp.error.value)

(***************************************************************************)
(* Claims about the tool-process manager: call_tool, find_tool, teardown.  *)
(***************************************************************************)
\* C18: call_tool forwards the request to the provider find_tool resolved;
\* when no registered provider's cache has the tool it fails with "Tool not
\* found", writes no request to any provider and leaves the map unchanged.
C18_CallToolResolution ==
    [][ \A t \in TaskIds :
          /\ (th[t].pc = "find" /\ th'[t] # th[t] /\ FindTool(th[t].tool) = {}) =>
                /\ th'[t].pc = "idle"
                /\ th'[t].ret = Err("Tool not found")
                /\ servers' = servers /\ instances' = instances
          /\ (th[t].pc = "find" /\ th'[t].pc = "forward") =>
                th'[t].name \in FindTool(th[t].tool)
          /\ (th[t].pc = "forward" /\ th'[t].pc = "await_response") =>
                /\ th'[t].inst = servers[th[t].name]
                /\ \A i \in InstanceIds :
                      instances'[i].outstanding =
                         instances[i].outstanding + (IF i = th'[t].inst THEN 1 ELSE 0)
      ]_vars

\* a call has failed with "Tool not found" next to a running provider that
\* exposes only the other tool
C18_Witness ==
    /\ th[1].ret = Err("Tool not found") /\ th[1].op = "idle"
    /\ Len(instances) = 1 /\ servers["a"] = 1
    /\ instances[1].process /\ instances[1].tools = {"search"}
    /\ instances[1].outstanding = 0

\* the registered providers whose cache holds a tool of that name
Exposing(tool) ==
    {n \in ProviderNames : servers[n] # 0 /\ tool \in instances[servers[n]].tools}

\* C19: when exactly one registered provider exposes the tool, find_tool
\* returns that provider, in whatever order the providers were registered;
\* when none exposes it, find_tool returns no match.
C19_FindToolUnique ==
    [][ \A t \in TaskIds :
          (th[t].pc = "find" /\ th'[t] # th[t]) =>
              /\ \A p \in ProviderNames :
                    Exposing(th[t].tool) = {p} =>
                        th'[t].pc = "forward" /\ th'[t].name = p
              /\ Exposing(th[t].tool) = {} => th'[t].pc = "idle"
      ]_vars

\* "a" registered first and "b" second, only "b" exposes "search", and a
\* call for "search" has been resolved to "b"
C19_Witness ==
    \E t \in TaskIds :
        /\ th[t].pc = "forward" /\ th[t].tool = "search" /\ th[t].name = "b"
        /\ servers["a"] = 1 /\ servers["b"] = 2
        /\ "search" \notin instances[1].tools /\ "search" \in instances[2].tools

\* the instances the map refers to
Registered == {servers[n] : n \in {m \in ProviderNames : servers[m] # 0}}

\* C20: stop_server and stop_all remove an entry only after stop has been
\* performed on it; when stop_all returns success the map is empty and no
\* formerly registered provider holds a child handle; stop_server on an
\* absent name returns success and changes nothing.
C20_Teardown ==
    [][ \A t \in TaskIds :
          /\ (th[t].op = "stop_all" /\ th'[t].op = "idle" /\ th'[t].ret = OkUnit) =>
                /\ \A i \in Registered : ~ instances[i].process
                /\ servers' = [n \in ProviderNames |-> 0]
                /\ \A i \in InstanceIds :
                      instances'[i].process =>
                          \E u \in TaskIds : th'[u].op = "register" /\ th'[u].inst = i
          /\ (th[t].op = "stop" /\ th'[t].op = "idle" /\ servers[th[t].name] = 0) =>
                /\ th'[t].ret = OkUnit
                /\ servers' = servers /\ instances' = instances
          /\ (th[t].op = "stop" /\ th'[t].op = "idle" /\ servers[th[t].name] # 0) =>
                \/ /\ th'[t].ret = OkUnit
                   /\ servers' = [servers EXCEPT ![th[t].name] = 0]
                   /\ ~ instances'[servers[th[t].name]].process
                   /\ instances'[servers[th[t].name]].kills
                         = instances[servers[th[t].name]].kills
                             + (IF instances[servers[th[t].name]].process THEN 1 ELSE 0)
                \/ /\ th'[t].ret = Err("kill failed")
                   /\ servers' = servers
          /\ \A n \in ProviderNames :
                (servers[n] # 0 /\ servers'[n] = 0) =>
                    \E u \in TaskIds : th[u].op \in {"stop", "stop_all"} /\ th'[u].ret = OkUnit
      ]_vars

\* stop_all has stopped both entries of the map and is about to clear it
C20_Witness ==
    \E t \in TaskIds :
        /\ th[t].pc = "stop_all_loop" /\ th[t].todo = {}
        /\ servers["a"] # 0 /\ servers["b"] # 0
        /\ \A i \in Registered :
              ~ instances[i].process /\ instances[i].kills = 1 /\ ~ instances[i].dropped

(***************************************************************************)
(* Vocabulary of the permission-gate claims.                               *)
(***************************************************************************)
\* the text the user typed, as the match sees it
Choice(c) == to_lowercase(trim(cl[c].input.text))

AllowOnce == {<<"y">>, <<"y", "e", "s">>}

DenyOnce == {<<"n">>, <<"n", "o">>}

Escalate == {<<"a">>, <<"a", "l", "l">>}

Cancel == {<<"q">>, <<"q", "u", "i", "t">>}

Answered(c, choices) == cl[c].input.kind = "line" /\ Choice(c) \in choices

\* caller c takes the step of its request that reads the mode
ReadsMode(c) == cl[c].pc = "gate" /\ cl'[c].pc # "gate"

\* caller c takes a turn of the prompt loop on a line of text
ReadsLine(c) == cl[c].pc = "prompt" /\ cl'[c] # cl[c] /\ cl'[c].input.kind = "line"

ChoiceAfter(c) == to_lowercase(trim(cl'[c].input.text))

\* C21: a request that begins while the mode is AllowAll returns true with
\* no prompt and leaves the mode unchanged, for file writes and for shell
\* executions alike; no request that observed AllowAll has prompted.
C21_AllowAllNoPrompt ==
    /\ [][\A c \in Callers :
            (ReadsMode(c) /\ mode = "AllowAll") =>
                /\ cl'[c].gate = "true"
                /\ cl'[c].pc = "perform"
                /\ ~ cl'[c].prompted
                /\ cl'[c].input = NoInput
                /\ mode' = mode]_vars
    /\ [](\A c \in Callers :
            cl[c].observed = "AllowAll" => ~ cl[c].prompted /\ cl[c].gate = "true")

\* a shell request was granted through the escalate choice and a file-write
\* request on the same gate was then granted without a prompt
C21_Witness ==
    \E c, d \in Callers :
        /\ cl[c].op = "execute_shell"
        /\ Answered(c, Escalate)
        /\ cl[c].gate = "true"
        /\ cl[d].op = "write_file"
        /\ cl[d].observed = "AllowAll"
        /\ cl[d].gate = "true"
        /\ ~ cl[d].prompted
        /\ "write" \in cl[d].effects

\* C22: the mode never goes from AllowAll back to Ask, and it goes from Ask
\* to AllowAll only in a step where a prompt read the escalate choice.
C22_Monotone ==
    [][mode' # mode =>
          /\ mode = "Ask"
          /\ mode' = "AllowAll"
          /\ \E c \in Callers :
                /\ ReadsLine(c)
                /\ ChoiceAfter(c) \in Escalate
                /\ cl'[c].gate = "true"]_vars

\* the mode was escalated at the prompt of a file write,
\* and the write went through
C22_Witness ==
    /\ mode = "AllowAll"
    /\ \E c \in Callers :
          /\ cl[c].op = "write_file"
          /\ Answered(c, Escalate)
          /\ cl[c].pc = "done"
          /\ cl[c].ret = ToolOk

\* C23: while the mode is Ask, allow-once returns true and leaves Ask, deny
\* and cancel return false and leave Ask, escalate sets AllowAll and returns
\* true, whichever primitive asked.
C23_Decisions ==
    [][\A c \in Callers :
          (ReadsLine(c) /\ mode = "Ask") =>
              /\ ChoiceAfter(c) \in AllowOnce =>
                    cl'[c].gate = "true" /\ mode' = "Ask"
              /\ ChoiceAfter(c) \in DenyOnce =>
                    cl'[c].gate = "false" /\ mode' = "Ask"
              /\ ChoiceAfter(c) \in Cancel =>
                    cl'[c].gate = "false" /\ mode' = "Ask"
              /\ ChoiceAfter(c) \in Escalate =>
                    cl'[c].gate = "true" /\ mode' = "AllowAll"]_vars

\* one request was cancelled and another allowed once, the mode still Ask
C23_Witness ==
    /\ mode = "Ask"
    /\ \E c, d \in Callers :
          /\ cl[c].op = "write_file"
          /\ Answered(c, Cancel)
          /\ cl[c].gate = "false"
          /\ cl[d].op = "execute_shell"
          /\ Answered(d, AllowOnce)
          /\ cl[d].gate = "true"

\* C24: every check observes exactly Ask or exactly AllowAll, namely the
\* mode at the moment it reads; a check that reads once the mode has been
\* escalated observes AllowAll.
C24_AtomicEscalation ==
    /\ [](\A c \in Callers : cl[c].observed \in {"none", "Ask", "AllowAll"})
    /\ [][\A c \in Callers :
            ReadsMode(c) =>
                /\ cl'[c].observed = mode
                /\ mode = "AllowAll" => cl'[c].observed = "AllowAll"]_vars

\* while one caller escalated at its prompt, the other caller's check read
\* the mode afterwards and saw AllowAll
C24_Witness ==
    \E c, d \in Callers :
        /\ cl[c].op = "write_file"
        /\ Answered(c, Escalate)
        /\ cl[c].pc = "perform"
        /\ cl[d].op = "execute_shell"
        /\ cl[d].observed = "AllowAll"
        /\ cl[d].pc = "perform"

\* C25: once the gate returned false the primitive has no effect (no
\* directory, no file, no command) and it ends with the permission-denied
\* error of its kind, never with success.
C25_DeniedFailsCleanly ==
    \A c \in Callers :
        cl[c].gate = "false" =>
            /\ cl[c].effects = {}
            /\ cl[c].pc \in {"bail", "done"}
            /\ cl[c].pc = "done" =>
                  /\ cl[c].ret.kind = "err"
                  /\ cl[c].ret.value = IF cl[c].op = "write_file" THEN WriteDenied
                                       ELSE ShellDenied

\* a shell execution was refused because the prompt could not be read, and a
\* file write because the user said no
C25_Witness ==
    \E c, d \in Callers :
        /\ cl[c].op = "execute_shell"
        /\ cl[c].input.kind = "error"
        /\ cl[c].pc = "done"
        /\ cl[c].ret = ToolErr(ShellDenied)
        /\ cl[d].op = "write_file"
        /\ Answered(d, DenyOnce)
        /\ cl[d].pc = "done"
        /\ cl[d].ret = ToolErr(WriteDenied)

\* C26: with the gate installed as AgentSystem::new installs it, a directory
\* creation, a file write or a command spawn happens only in a call whose
\* gate request returned true; the reading primitives never ask the gate.
C26_GateBeforeEffects ==
    \A c \in Callers :
        /\ (pm /\ cl[c].effects \cap {"create_dir", "write", "spawn"} # {}) =>
              cl[c].gate = "true"
        /\ (pm /\ cl[c].pc = "write") => cl[c].gate = "true"
        /\ cl[c].op \in {"read_file", "list_files", "search_files"} =>
              /\ cl[c].gate = "none"
              /\ cl[c].observed = "none"
              /\ ~ cl[c].prompted

\* a command was spawned after the user allowed it at the prompt, and a
\* search ran without any request to the gate
C26_Witness ==
    /\ pm
    /\ \E c, d \in Callers :
          /\ cl[c].op = "execute_shell"
          /\ "spawn" \in cl[c].effects
          /\ cl[c].prompted
          /\ Answered(c, AllowOnce)
          /\ cl[d].op = "search_files"
          /\ cl[d].pc = "done"
          /\ "read" \in cl[d].effects

(***************************************************************************)
(* Errors inside handlers, the completion service, the registry.           *)
(***************************************************************************)
SomeCallFailed == \E i \in 1..Len(ma.lines) : ma.lines[i].kind = "failed"

\* C27: when a tool call of the run met a provider error (tool not found,
\* failure reported by the provider, response that does not parse), the
\* result the handler returns for its subtask has success == false.
C27_ProviderErrorFails ==
    (ma.pc = "done" /\ ma.out.kind = "ok" /\ SomeCallFailed) =>
        ma.out.value.success = FALSE

\* C28: a permission denial raised while a handler runs never ends execute
\* with an error; it is a failed result of that subtask.
C28_DenialIsFailedResult ==
    ~ (/\ pc = "done"
       /\ outcome.kind = "err"
       /\ outcome.value \in {WriteDenied, ShellDenied})

\* execute returned the error of the completion service
CompletionFailed == pc = "done" /\ outcome.kind = "err" /\ outcome.value = CompletionError

\* C29: a failure of the completion service is not retried.  Failing during
\* decomposition, execute returns the error after exactly one call of the
\* service and no handler call; failing inside a handler, that handler call
\* ends with the error after its one call of the service, no result is
\* recorded for it and no handler is invoked afterwards; once execute has
\* returned nothing more happens.
C29_NoRetry ==
    /\ []((CompletionFailed /\ subtasks = <<>>) =>
            llm_calls = 1 /\ calls = <<>> /\ results = <<>>)
    /\ [][(pc = "in_handler" /\ outcome'.kind = "err" /\ outcome'.value = CompletionError) =>
            /\ llm_calls' = llm_calls + 1
            /\ pc' = "done"
            /\ active' = {}
            /\ calls' = calls
            /\ results' = results]_vars
    /\ [][pc # "done"]_vars

\* the second of three handlers met the failure: three calls of the service
\* in all, one result, the third subtask never started
C29_Witness ==
    /\ CompletionFailed
    /\ Len(subtasks) = 3
    /\ calls = <<0, 1>>
    /\ Len(results) = 1
    /\ llm_calls = 3

\* C30: find_capable returns the handlers whose can_handle holds, in the
\* order in which they were registered.
C30_RegistrationOrder ==
    reg.task # NoTask =>
        reg.found = SelectSeq(RegistrationOrder, LAMBDA a : can_handle(a, reg.task))

\* what does hold of find_capable: the capable handlers, each once, in the
\* iteration order of the map
C30_ExactlyCapable ==
    reg.task # NoTask =>
        /\ Range(reg.found) = {a \in Range(RegistrationOrder) : can_handle(a, reg.task)}
        /\ Len(reg.found) = Cardinality(Range(reg.found))

(***************************************************************************)
(* Dispatch, the descriptor cache, registration failures.                  *)
(***************************************************************************)
Capable(t) == {a \in Range(RegistrationOrder) : can_handle(a, t)}

\* C31: execute_task goes directly to a handler exactly when one registered
\* handler can handle the task, and then to that handler; with none or with
\* several it takes the coordinator's path; the coordinator is never one of
\* the candidates.
C31_DirectIffOneCapable ==
    reg.task # NoTask =>
        /\ reg.route.kind = "direct" <=> Cardinality(Capable(reg.task)) = 1
        /\ reg.route.kind = "direct" => Capable(reg.task) = {reg.route.agent}
        /\ reg.route.kind # "direct" => reg.route = Route(<<>>)
        /\ "coordinator" \notin Range(reg.found)

\* a task only the shell handler can handle was dispatched to it
C31_Witness ==
    /\ reg.task = <<"R", "u", "n">>
    /\ reg.found = <<"shell">>
    /\ reg.route = [kind |-> "direct", agent |-> "shell"]

\* the response carries a tool list that discover_tools accepts
IsToolList(resp) == resp.success /\ resp.result.some /\ resp.result.value.kind = "tools"

\* C32: the descriptor cache of a tool process changes only in a start()
\* whose discovery response carried a tool list, and then to that list;
\* get_tools, get_tool, call_tool and stop leave it alone, and the reads
\* return what the cache holds.
C32_CacheWrittenByDiscovery ==
    /\ [][(~ instances'[1].dropped /\ instances'[1].tools # instances[1].tools) =>
            /\ th'[1].op = "start"
            /\ th'[1].ret = OkUnit
            /\ th'[1].resp.some
            /\ IsToolList(th'[1].resp.value)
            /\ instances'[1].tools = th'[1].resp.value.result.value.tools]_vars
    /\ [][th'[1].op \in {"get_tools", "get_tool", "call_tool", "stop"} =>
            instances'[1].tools = instances[1].tools]_vars
    /\ [](th[1].op = "get_tools" => th[1].ret.value.tools = instances[1].tools)
    /\ [](th[1].op = "get_tool" =>
            th[1].ret.value.some = (th[1].tool \in instances[1].tools))

\* after a start that discovered "search" and a stop, the descriptor is
\* still read from the cache
C32_Witness ==
    /\ th[1].op = "get_tool"
    /\ th[1].tool = "search"
    /\ th[1].ret.value.some
    /\ instances[1].kills = 1
    /\ ~ instances[1].process

\* task t's register_server returns an error in this step
RegisterFails(t) ==
    th[t].op = "register" /\ th'[t].op = "idle" /\ th'[t].ret.kind = "err"

\* C33: when register fails, at the spawn or in the discovery exchange, the
\* provider map is as it was: no entry appears under the name, and an entry
\* already there is neither removed nor replaced, its process untouched.
C33_FailedRegisterKeepsMap ==
    [][\A t \in TaskIds :
          RegisterFails(t) =>
              /\ servers' = servers
              /\ servers[th[t].name] # th[t].inst
              /\ \A n \in ProviderNames :
                    servers[n] # 0 => instances'[servers[n]] = instances[servers[n]]]_vars

\* a second registration under name "a" failed in discovery; the first
\* process is still registered and running, the failed candidate is gone
C33_Witness ==
    \E t \in TaskIds, i \in 1..Len(instances) :
        /\ th[t].op = "idle"
        /\ th[t].ret = Err("discovery failed")
        /\ servers["a"] # 0
        /\ i > servers["a"]
        /\ instances[i].name = "a"
        /\ instances[i].dropped
        /\ instances[i].kills = 1
        /\ instances[servers["a"]].process
        /\ ~ instances[servers["a"]].dropped

\* C34: a CallTool request is written only to a tool process that exposes
\* the named tool at that moment.
C34_ForwardToExposing ==
    [][\A t \in TaskIds :
          (th[t].pc = "forward" /\ th'[t].pc = "await_response") =>
              get_tool(instances[th'[t].inst], th[t].tool)]_vars

\* C37: when a tool-process instance is destroyed, every child it ever
\* spawned has had a kill issued: none was let go of without one.
C37_EveryChildKilled ==
    instances[1].dropped => instances[1].leaked = 0

\* the last call was a start() that returned Ok on reading this response
StartedOn(resp) ==
    th[1].op = "start" /\ th[1].ret = OkUnit /\ th[1].resp = Some(resp)

\* C39: start() returns an error only when the spawn or the discovery
\* exchange fails; when the discovery response is read but carries no tool
\* list, start() returns Ok and the instance is running with an empty cache.
C39_StartWithoutToolList ==
    /\ (th[1].op = "start" /\ th[1].ret.kind = "err") =>
          th[1].ret \in {Err("spawn failed"), Err("discovery failed")}
    /\ \A resp \in DiscoveryResponses :
          (StartedOn(resp) /\ ~ IsToolList(resp)) =>
              instances[1].process /\ instances[1].tools = {}

(***************************************************************************)
(* The gate under concurrency and at the end of input; the fallback plan.  *)
(***************************************************************************)
\* C35: no permission request returns false while the shared mode is
\* already AllowAll.
C35_NoDenialUnderAllowAll ==
    [][\A c \in Callers :
          (cl[c].gate # "false" /\ cl'[c].gate = "false") => mode = "Ask"]_vars

\* C36: a prompt that meets the end of its input (read_line hands back an
\* empty string) ends the request with false instead of prompting again.
C36_EndOfInputDenies ==
    [][\A c \in Callers :
          (ReadsLine(c) /\ cl'[c].input.text = <<>>) =>
              cl'[c].gate = "false" /\ cl'[c].pc = "bail"]_vars

\* C38: the handler identifier the keyword fallback picks is registered in
\* the registry that AgentSystem::new builds.
C38_FallbackIsRegistered ==
    dpc = "inferred" => inferred \in RegisteredAgents

====
